---- MODULE Spec2Model ----
(***************************************************************************)
(* Top-level entropy sandbox of the Python runtime support                 *)
(* (src/pyodide/internal/topLevelEntropy).                                 *)
(*                                                                         *)
(*   allow_entropy.py        the allowance cell and the scoped allowance   *)
(*   entropy_patches.py      the patched entropy primitives and the two    *)
(*                           lifecycle entry points                        *)
(*   import_patch_manager.py the patch registry, the meta path finder and  *)
(*                           its loader, block_calls and the               *)
(*                           BlockedCallModule proxy                       *)
(*   entropy_import_context.py the registrations and their context         *)
(*                           managers                                      *)
(*                                                                         *)
(* The three Python modules each keep a flag named IN_REQUEST_CONTEXT; the *)
(* model keeps them apart as AE_, EP_ and IPM_IN_REQUEST_CONTEXT.          *)
(* entropy_patches.py refers to its collaborators by the names and         *)
(* signatures of an earlier interface; a call is modelled as the call of   *)
(* the function of that name.                                              *)
(***************************************************************************)
EXTENDS Integers, Sequences, FiniteSets, TLC

\* ------------------------------------------------------------------ bounds

\* largest n passed to allow_bad_entropy_calls
MaxAllowance == 2
\* deepest nesting of allow_bad_entropy_calls scopes
MaxDepth == 2
\* number of times the runtime calls before_first_request
MaxFirstRequestCalls == 2
\* number of attribute writes (through a proxy or on the module itself)
MaxWrites == 1
\* number of import statements
MaxImports == 2
\* number of PatchFinders in sys.meta_path
MaxInstalls == 2
\* names drawn from one DeterministicRandomNameSequence
MaxNames == 1400
\* size of the alphabet and length of the names of a sequence small enough to
\* be drawn to its end
MaxSmallBase == 3
MaxSmallLength == 2

\* ------------------------------------------------------- program constants

\* entropy_patches.EIO
EIO == 29
\* the EIO local to allow_entropy.raise_unless_entropy_allowed
AE_EIO == 29

\* DeterministicRandomNameSequence.characters
characters ==
    <<"a", "b", "c", "d", "e", "f", "g", "h", "i", "j", "k", "l", "m", "n", "o",
      "p", "q", "r", "s", "t", "u", "v", "w", "x", "y", "z", "0", "1", "2", "3",
      "4", "5", "6", "7", "8", "9", "_">>

\* range(8) in index_to_chars
NameLength == 8

\* The range of the one item of array("b"), a signed char.
SCHAR_MIN == -128
SCHAR_MAX == 127

\* Modules whose import policy ends in block_calls, with the allowlist the
\* policy passes (entropy_import_context.py: random_exec, numpy_random_context).
BlockedNames == {"random", "numpy.random"}

Allowlist(name) ==
    IF name = "random" THEN {"Random", "SystemRandom"}
    ELSE {"default_rng", "RandomState"}

\* Attributes of the real modules that the model follows.
AttrNames(name) ==
    IF name = "random" THEN {"Random", "random", "TWOPI"}
    ELSE {"default_rng", "rand"}

Fn(id) == [kind |-> "fn", id |-> id]
Const(id) == [kind |-> "const", id |-> id]
NoneVal == [kind |-> "None"]

\* The attribute values of a freshly executed module.
InitialAttr(name, key) ==
    IF key = "TWOPI" THEN Const(<<name, key>>) ELSE Fn(<<name, key>>)

\* Values that top-level code assigns to a module attribute.
WriteValues == {Fn("user_fn"), Const("user_const")}

\* Arguments of calls.
Args == {0, 1}

\* sys.meta_path as the interpreter sets it up.
meta_path == <<"BuiltinImporter", "FrozenImporter", "PathFinder">>

\* Module names that top-level code imports: the modules of BlockedNames, one
\* whose policy only opens an allowance, one with a policy that is not
\* installed, one without a policy, and one that no finder knows.
ModuleNames ==
    BlockedNames \cup {"multiprocessing.process", "tiktoken._tiktoken",
                       "langsmith._internal._constants", "json", "nosuch"}

\* The modules that rust_package_context is registered for.
RustNames == {"tiktoken._tiktoken", "jiter", "cryptography.exceptions"}

\* The module that pydantic_core_context is registered for.
PydanticNames == {"pydantic_core"}

\* The module that no_ssl hides.
SslNames == {"ssl"}

\* A module that is frozen into the interpreter and is also a file of the
\* standard library: FrozenImporter and PathFinder both find it.
Frozen == {"os"}

\* The modules that the finders of the interpreter can find.
Installed ==
    {"random", "numpy.random", "multiprocessing.process", "json"} \cup RustNames
        \cup PydanticNames \cup SslNames

\* sys.version_info[:2] of the interpreter.
sys_version_info == <<3, 13>>

\* Comparison of version tuples.
AtLeast(v, w) == v[1] > w[1] \/ (v[1] = w[1] /\ v[2] >= w[2])

VARIABLES
    AE_IN_REQUEST_CONTEXT,   \* allow_entropy.IN_REQUEST_CONTEXT
    EP_IN_REQUEST_CONTEXT,   \* entropy_patches.IN_REQUEST_CONTEXT
    IPM_IN_REQUEST_CONTEXT,  \* import_patch_manager.IN_REQUEST_CONTEXT
    ALLOWED_ENTROPY_CALLS,   \* allow_entropy.ALLOWED_ENTROPY_CALLS[0]
    guards,                  \* active allow_bad_entropy_calls scopes, innermost last
    drawn,                   \* draws granted in the innermost scope, -1 once
                             \* it has held an inner scope
    hadInner,                \* the outermost scope has held an inner scope
    os_urandom,              \* the function bound to os.urandom
    Random_seed,             \* the function bound to _random.Random.seed
    sys_meta_path,           \* sys.meta_path
    sys_modules,             \* sys.modules for the names in BlockedNames; an
                             \* entry is followed from block_calls onwards
    ORIG_MODULES,            \* import_patch_manager.ORIG_MODULES
    mod_attrs,               \* attributes of the real module objects
    proxy_dict,              \* instance attributes stored on a proxy itself
    held,                    \* a value bound by top-level 'from m import key'
    topLevelDone,            \* before_top_level has run
    firstRequestCalls,       \* number of before_first_request calls so far
    writes,                  \* number of attribute writes so far
    patches,                 \* import_patch_manager.patches
    before_first_request_handlers,
                             \* import_patch_manager.before_first_request_handlers
    loading,                 \* the import in progress, or None
    imports,                 \* number of import statements run so far
    executed,                \* names of the modules whose exec_module has been
                             \* called, in order
    IMPORTED_RUST_PACKAGE,   \* entropy_import_context.IMPORTED_RUST_PACKAGE
    no_ssl_frames,           \* the locals f and ssl of the active no_ssl scopes,
                             \* innermost last, each with the meta path at entry
    index,                   \* index of a DeterministicRandomNameSequence
    last                     \* the last operation and its outcome

vars == <<AE_IN_REQUEST_CONTEXT, EP_IN_REQUEST_CONTEXT, IPM_IN_REQUEST_CONTEXT,
          ALLOWED_ENTROPY_CALLS, guards, drawn, hadInner, os_urandom,
          Random_seed, sys_meta_path, sys_modules, ORIG_MODULES, mod_attrs, proxy_dict,
          held, topLevelDone, firstRequestCalls, writes, patches,
          before_first_request_handlers, loading, imports, executed,
          IMPORTED_RUST_PACKAGE, no_ssl_frames, index, last>>

scopeVars == <<guards, drawn, hadInner>>
flagVars == <<AE_IN_REQUEST_CONTEXT, EP_IN_REQUEST_CONTEXT, IPM_IN_REQUEST_CONTEXT>>
primVars == <<os_urandom, Random_seed>>
importVars == <<sys_meta_path, sys_modules, ORIG_MODULES>>
attrVars == <<mod_attrs, proxy_dict, writes>>
runVars == <<topLevelDone, firstRequestCalls, no_ssl_frames, index>>
loadVars == <<patches, before_first_request_handlers, loading, imports, executed,
              IMPORTED_RUST_PACKAGE>>

RealModule(name) == [kind |-> "module", name |-> name]
BlockedCallModule(name, allowlist) ==
    [kind |-> "BlockedCallModule", _mod |-> name, _allow_list |-> allowlist]

\* ---------------------------------------------------------- patch registry

\* import_patch_manager.PatchInfo()
PatchInfo ==
    [create |-> "nullcontext", exec |-> "nullcontext", before_first_request |-> "None"]

\* dict.setdefault(name, PatchInfo())
setdefault(d, name) == IF name \in DOMAIN d THEN d ELSE (name :> PatchInfo) @@ d

\* import_patch_manager.register_create_patch
register_create_patch(d, name, context_manager) ==
    [setdefault(d, name) EXCEPT ![name].create = context_manager]

\* Mutation: a registration replaces the whole entry of the name.
register_exec_patch_Overwrite(d, name, context_manager) ==
    (name :> [PatchInfo EXCEPT !.exec = context_manager]) @@ d

\* import_patch_manager.register_exec_patch
register_exec_patch(d, name, context_manager) ==
    [setdefault(d, name) EXCEPT ![name].exec = context_manager]

\* import_patch_manager.register_before_first_request
register_before_first_request(d, name, handler) ==
    [setdefault(d, name) EXCEPT ![name].before_first_request = handler]

\* functools.partial(register_X, name), X one of create, exec and
\* before_first_request.
register_partial(field, name) == [kind |-> "partial", fn |-> field, name |-> name]

\* A call register_X(name, arg) on registry d, arg "None" when it is left out:
\* the registry after the call and the value returned.
register_call(field, d, name, arg) ==
    IF arg = "None"
    THEN [patches |-> d, ret |-> register_partial(field, name)]
    ELSE [patches |->
            CASE field = "create" -> register_create_patch(d, name, arg)
              [] field = "exec" -> register_exec_patch(d, name, arg)
              [] OTHER -> register_before_first_request(d, name, arg),
          ret |-> arg]

\* Mutation: the partial hands f back without registering it.
partial_call_Unbound(p, d, f) == [patches |-> d, ret |-> f]

\* The call p(f) of a partial p that a register function has returned.
partial_call(p, d, f) == register_call(p.fn, d, p.name, f)

\* @register_X(name) in front of the definition of f.
decorator(field, d, name, f) ==
    LET p == register_call(field, d, name, "None") IN
    partial_call(p.ret, p.patches, f)

\* The decorators on rust_package_context, which apply bottom-up.
rust_package_registrations ==
    LET s1 == decorator("exec", <<>>, "jiter", "rust_package_context")
        s2 == decorator("exec", s1.patches, "cryptography.exceptions", s1.ret)
    IN  decorator("create", s2.patches, "tiktoken._tiktoken", s2.ret)

\* Names, context managers and handlers that registrations are made with:
\* a name that entropy_import_context has registered and one that it has not.
RegNames == {"random", "tempfile"}
RegContextManagers == {"tempfile_context", "rust_package_context"}
RegHandlers == {"tempfile_restore_random_name_sequence", "random_before_first_request"}

\* The registrations that entropy_import_context.py makes for the modules of
\* ModuleNames and RustNames when it is imported; decorators apply bottom-up, modules in
\* the order of the file.
entropy_import_context ==
    LET d0 == rust_package_registrations.patches
        d1 == register_exec_patch(d0, "random", "random_exec")
        d2 == register_before_first_request(d1, "random", "random_before_first_request")
        d3 == register_exec_patch(d2, "numpy.random", "numpy_random_context")
        d4 == register_before_first_request(d3, "numpy.random",
                                            "numpy_random_before_first_request")
        d5 == register_exec_patch(d4, "pydantic_core", "pydantic_core_context")
        d6 == register_exec_patch(d5, "multiprocessing.process",
                                  "multiprocessing_process_context")
    IN  register_exec_patch(d6, "langsmith._internal._constants",
                            "langsmith__internal__constants_context")

\* What a context manager of entropy_import_context.py does around the body
\* it wraps: the allowance it opens (-1 for none) and whether it ends in
\* block_calls. nullcontext does neither.
ContextManager(cm) ==
    CASE cm = "random_exec" -> [allow |-> 10, block |-> TRUE]
      [] cm = "numpy_random_context" -> [allow |-> -1, block |-> TRUE]
      [] cm = "pydantic_core_context" -> [allow |-> 1, block |-> FALSE]
      [] cm = "multiprocessing_process_context" -> [allow |-> 1, block |-> FALSE]
      [] cm = "langsmith__internal__constants_context" -> [allow |-> 1, block |-> FALSE]
      [] OTHER -> [allow |-> -1, block |-> FALSE]

Init ==
    /\ AE_IN_REQUEST_CONTEXT = FALSE
    /\ EP_IN_REQUEST_CONTEXT = FALSE
    /\ IPM_IN_REQUEST_CONTEXT = FALSE
    /\ ALLOWED_ENTROPY_CALLS = 0
    /\ guards = <<>>
    /\ drawn = 0
    /\ hadInner = FALSE
    /\ no_ssl_frames = <<>>
    /\ index = 0
    /\ os_urandom = "orig_urandom"
    /\ Random_seed = "orig_Random_seed"
    /\ sys_meta_path = meta_path
    /\ sys_modules = [name \in ModuleNames \cup RustNames \cup PydanticNames \cup SslNames
                         |-> NoneVal]
    /\ ORIG_MODULES = <<>>
    /\ mod_attrs = [name \in BlockedNames |->
                      [key \in AttrNames(name) |-> InitialAttr(name, key)]]
    /\ proxy_dict = [name \in BlockedNames |-> <<>>]
    /\ held = NoneVal
    /\ topLevelDone = FALSE
    /\ firstRequestCalls = 0
    /\ writes = 0
    /\ patches = entropy_import_context
    /\ before_first_request_handlers = <<>>
    /\ loading = NoneVal
    /\ imports = 0
    /\ executed = <<>>
    /\ IMPORTED_RUST_PACKAGE = FALSE
    /\ last = [op |-> "init"]

\* ------------------------------------------------------------ entropy gate

OK(budget) == [raised |-> "none", errno |-> 0, budget |-> budget, source |-> FALSE]
OSError(errno, budget) ==
    [raised |-> "OSError", errno |-> errno, budget |-> budget, source |-> FALSE]

\* Mutation: the allowance test off by one.
is_bad_entropy_enabled_OffByOne == ALLOWED_ENTROPY_CALLS >= 0

\* allow_entropy.is_bad_entropy_enabled
is_bad_entropy_enabled == ALLOWED_ENTROPY_CALLS > 0

\* allow_entropy.should_allow_entropy_call
AE_should_allow_entropy_call == AE_IN_REQUEST_CONTEXT \/ is_bad_entropy_enabled

\* Mutation: the gate of entropy_patches forgets the request-context flag.
EP_should_allow_entropy_call_NoFlag == is_bad_entropy_enabled

\* entropy_patches.should_allow_entropy_call
EP_should_allow_entropy_call == EP_IN_REQUEST_CONTEXT \/ is_bad_entropy_enabled

\* allow_entropy.raise_unless_entropy_allowed
raise_unless_entropy_allowed ==
    IF ~AE_should_allow_entropy_call
    THEN OSError(AE_EIO, ALLOWED_ENTROPY_CALLS)
    ELSE OK(ALLOWED_ENTROPY_CALLS)

\* The host's entropy source behind os.urandom and a default-seeded
\* Random.seed. It reads the allowance cell whose address get_bad_entropy_flag
\* hands it, and it is the one place that counts the allowance down.
getentropy_at(budget) ==
    LET r == IF EP_IN_REQUEST_CONTEXT THEN OK(budget)
             ELSE IF budget > 0 THEN OK(budget - 1)
             ELSE OSError(EIO, budget)
    IN  [r EXCEPT !.source = TRUE]

getentropy == getentropy_at(ALLOWED_ENTROPY_CALLS)

orig_urandom == getentropy

\* Mutation: patch_urandom passes every call on.
patch_urandom_NoGate == orig_urandom

\* entropy_patches.patch_urandom
patch_urandom ==
    IF ~EP_should_allow_entropy_call
    THEN OSError(EIO, ALLOWED_ENTROPY_CALLS)
    ELSE orig_urandom

\* _random.Random.seed: seed(None) draws from the entropy source, seed(val)
\* does not.
orig_Random_seed(val) ==
    IF val = "None" THEN getentropy ELSE OK(ALLOWED_ENTROPY_CALLS)

\* Mutation: patched_seed passes every call on.
patched_seed_NoGate(val) == orig_Random_seed(val)

\* Mutation: the refusal is a RuntimeError, as the docstring of patched_seed
\* says.
patched_seed_RuntimeError(val) ==
    IF val = "None" /\ ~EP_should_allow_entropy_call
    THEN [raised |-> "RuntimeError", errno |-> 0, budget |-> ALLOWED_ENTROPY_CALLS,
          source |-> FALSE]
    ELSE orig_Random_seed(val)

\* Mutation: patched_seed asks the gate for every seed value.
patched_seed_GatesValue(val) ==
    IF ~EP_should_allow_entropy_call
    THEN OSError(EIO, ALLOWED_ENTROPY_CALLS)
    ELSE orig_Random_seed(val)

\* entropy_patches.patched_seed
patched_seed(val) ==
    IF val = "None" /\ ~EP_should_allow_entropy_call
    THEN OSError(EIO, ALLOWED_ENTROPY_CALLS)
    ELSE orig_Random_seed(val)

\* The patched_seed that entropy_import_context._random_exec installs on
\* _random.Random: its gate is raise_unless_entropy_allowed.
EIC_patched_seed(val) ==
    IF val = "None" /\ raise_unless_entropy_allowed.raised # "none"
    THEN raise_unless_entropy_allowed
    ELSE orig_Random_seed(val)

SeedValues == {"None", "value"}

\* A granted draw made inside a scope counts towards the innermost scope. The
\* count stops at n + 1, which stands for "more than n".
Drawn(r) ==
    IF /\ guards # <<>> /\ drawn >= 0 /\ drawn <= guards[Len(guards)].n
       /\ r.raised = "none" /\ r.budget # ALLOWED_ENTROPY_CALLS
    THEN drawn + 1
    ELSE drawn

\* A call of os.urandom, either through the name os.urandom or through a
\* reference to patch_urandom taken while it was installed.
CallUrandom(fn) ==
    /\ topLevelDone
    /\ fn = os_urandom \/ fn = "patch_urandom"
    /\ LET r == IF fn = "patch_urandom" THEN patch_urandom ELSE orig_urandom IN
        /\ ALLOWED_ENTROPY_CALLS' = r.budget
        /\ drawn' = Drawn(r)
        /\ last' = [op |-> "urandom", fn |-> fn, raised |-> r.raised,
                    errno |-> r.errno, source |-> r.source,
                    before |-> ALLOWED_ENTROPY_CALLS,
                    phase |-> EP_IN_REQUEST_CONTEXT]
    /\ UNCHANGED <<loadVars, flagVars, guards, hadInner, primVars, importVars, attrVars,
                   held, runVars>>

\* A call of Random.seed(val), through the class or through a reference to
\* patched_seed taken while it was installed.
CallSeed(fn, val) ==
    /\ topLevelDone
    /\ fn = Random_seed \/ fn = "patched_seed"
    /\ LET r == IF fn = "patched_seed" THEN patched_seed(val)
                ELSE orig_Random_seed(val) IN
        /\ ALLOWED_ENTROPY_CALLS' = r.budget
        /\ drawn' = Drawn(r)
        /\ last' = [op |-> "seed", fn |-> fn, val |-> val, raised |-> r.raised,
                    errno |-> r.errno, source |-> r.source,
                    before |-> ALLOWED_ENTROPY_CALLS,
                    phase |-> EP_IN_REQUEST_CONTEXT]
    /\ UNCHANGED <<loadVars, flagVars, guards, hadInner, primVars, importVars, attrVars,
                   held, runVars>>

RaiseUnlessEntropyAllowed ==
    /\ topLevelDone
    /\ LET r == raise_unless_entropy_allowed IN
        last' = [op |-> "raise_unless_entropy_allowed", raised |-> r.raised,
                 errno |-> r.errno, source |-> r.source,
                 before |-> ALLOWED_ENTROPY_CALLS,
                 phase |-> AE_IN_REQUEST_CONTEXT]
    /\ UNCHANGED <<loadVars, flagVars, ALLOWED_ENTROPY_CALLS, scopeVars, primVars, importVars,
                   attrVars, held, runVars>>

\* allow_entropy._set_in_request_context, called by the embedding runtime.
SetInRequestContext ==
    /\ topLevelDone
    /\ AE_IN_REQUEST_CONTEXT' = TRUE
    /\ last' = [op |-> "_set_in_request_context"]
    /\ UNCHANGED <<loadVars, EP_IN_REQUEST_CONTEXT, IPM_IN_REQUEST_CONTEXT,
                   ALLOWED_ENTROPY_CALLS, scopeVars, primVars, importVars,
                   attrVars, held, runVars>>

\* ------------------------------------------------------- scoped allowance

PatchFinderInstalled ==
    \E i \in 1..Len(sys_meta_path) : sys_meta_path[i] = "PatchFinder"

\* Mutation: a value outside the range of the cell is stored modulo 2^8.
allow_bad_entropy_calls_enter_Wraps(n) ==
    [frame |-> [old |-> ALLOWED_ENTROPY_CALLS, n |-> n],
     budget |-> ((n - SCHAR_MIN) % (SCHAR_MAX - SCHAR_MIN + 1)) + SCHAR_MIN,
     raised |-> "none"]

\* allow_bad_entropy_calls(n) up to its yield: the assignment to the cell
\* raises OverflowError for a value that a signed char cannot hold.
allow_bad_entropy_calls_enter(n) ==
    IF n \in SCHAR_MIN..SCHAR_MAX
    THEN [frame |-> [old |-> ALLOWED_ENTROPY_CALLS, n |-> n], budget |-> n,
          raised |-> "none"]
    ELSE [frame |-> [old |-> ALLOWED_ENTROPY_CALLS, n |-> n],
          budget |-> ALLOWED_ENTROPY_CALLS, raised |-> "OverflowError"]

\* allow_bad_entropy_calls after its yield, when the body has ended normally.
allow_bad_entropy_calls_exit(frame) ==
    IF ALLOWED_ENTROPY_CALLS > 0
    THEN [raised |-> "RuntimeError", budget |-> ALLOWED_ENTROPY_CALLS]
    ELSE [raised |-> "none", budget |-> frame.old]

\* allow_bad_entropy_calls when the body raises: the exception is thrown in at
\* the yield, nothing after the yield runs, and it propagates.
allow_bad_entropy_calls_throw(frame) ==
    [raised |-> "body", budget |-> ALLOWED_ENTROPY_CALLS]

Top == guards[Len(guards)]
Pop == SubSeq(guards, 1, Len(guards) - 1)

\* A policy enters 'with allow_bad_entropy_calls(n)'.
AllowEnter(n) ==
    /\ topLevelDone
    /\ PatchFinderInstalled
    /\ Len(guards) < MaxDepth
    /\ LET e == allow_bad_entropy_calls_enter(n) IN
        /\ ALLOWED_ENTROPY_CALLS' = e.budget
        /\ guards' = IF e.raised = "none" THEN Append(guards, e.frame) ELSE guards
        /\ drawn' = IF e.raised = "none" THEN 0 ELSE drawn
        /\ hadInner' = IF e.raised = "none" THEN guards # <<>> ELSE hadInner
        /\ last' = [op |-> "allow_enter", n |-> n, before |-> ALLOWED_ENTROPY_CALLS,
                    raised |-> e.raised]
    /\ UNCHANGED <<loadVars, flagVars, primVars, importVars, attrVars, held, runVars>>

Released(path, frame, r) ==
    [op |-> "allow_exit", path |-> path, raised |-> r.raised,
     old |-> frame.old, n |-> frame.n, consumed |-> drawn,
     nested |-> (Len(guards) = 1 /\ hadInner), depth |-> Len(guards)]

\* The body of the innermost scope ends normally.
AllowExit ==
    /\ guards # <<>>
    /\ LET r == allow_bad_entropy_calls_exit(Top) IN
        /\ ALLOWED_ENTROPY_CALLS' = r.budget
        /\ last' = Released("normal", Top, r)
    /\ guards' = Pop
    /\ drawn' = (IF Len(guards) = 1 THEN 0 ELSE -1)
    /\ hadInner' = (Len(guards) > 1 /\ hadInner)
    /\ UNCHANGED <<loadVars, flagVars, primVars, importVars, attrVars, held, runVars>>

\* The body of the innermost scope raises.
AllowUnwind ==
    /\ guards # <<>>
    /\ LET r == allow_bad_entropy_calls_throw(Top) IN
        /\ ALLOWED_ENTROPY_CALLS' = r.budget
        /\ last' = Released("exception", Top, r)
    /\ guards' = Pop
    /\ drawn' = (IF Len(guards) = 1 THEN 0 ELSE -1)
    /\ hadInner' = (Len(guards) > 1 /\ hadInner)
    /\ UNCHANGED <<loadVars, flagVars, primVars, importVars, attrVars, held, runVars>>

\* ------------------------------------------------- BlockedCallModule proxy

callable(v) == v.kind \in {"fn", "wrapper"}

\* The function 'wrapper' that __getattribute__ builds around orig.
Wrapper(mod, key, orig) ==
    [kind |-> "wrapper", mod |-> mod, key |-> key, orig |-> orig]

Message(mod, key) ==
    <<"Cannot use ", mod, ".", key, "() outside of request context">>

\* A call of a real callable.
Call(fn, arg) ==
    [raised |-> "none", msg |-> <<>>, ret |-> <<fn.id, arg>>, ran |-> {fn.id}]

\* Mutation: the stand-in decides when it is made, so it always raises.
wrapper_DecidedAtCreation(w, arg) ==
    [raised |-> "RuntimeError", msg |-> Message(w.mod, w.key),
     ret |-> NoneVal, ran |-> {}]

\* BlockedCallModule.__getattribute__.wrapper
wrapper(w, arg) ==
    IF ~IPM_IN_REQUEST_CONTEXT
    THEN [raised |-> "RuntimeError", msg |-> Message(w.mod, w.key),
          ret |-> NoneVal, ran |-> {}]
    ELSE Call(w.orig, arg)

\* Mutation: __getattribute__ ignores the allow-list.
BlockedCallModule_getattribute_NoAllowlist(proxy, key) ==
    LET mod == proxy._mod
        orig == mod_attrs[mod][key]
    IN  IF IPM_IN_REQUEST_CONTEXT THEN orig
        ELSE IF ~callable(orig) THEN orig
        ELSE Wrapper(mod, key, orig)

\* Mutation: __getattribute__ never looks at IN_REQUEST_CONTEXT.
BlockedCallModule_getattribute_NoPhase(proxy, key) ==
    LET mod == proxy._mod
        orig == mod_attrs[mod][key]
    IN  IF ~callable(orig) THEN orig
        ELSE IF key \in proxy._allow_list THEN orig
        ELSE Wrapper(mod, key, orig)

\* BlockedCallModule.__getattribute__
BlockedCallModule_getattribute(proxy, key) ==
    LET mod == proxy._mod
        orig == mod_attrs[mod][key]
    IN  IF IPM_IN_REQUEST_CONTEXT THEN orig
        ELSE IF ~callable(orig) THEN orig
        ELSE IF key \in proxy._allow_list THEN orig
        ELSE Wrapper(mod, key, orig)

\* Mutation: the write lands on the proxy object, as object.__setattr__ would.
BlockedCallModule_setattr_OnProxy(proxy, key, val) ==
    [mod_attrs |-> mod_attrs,
     proxy_dict |-> [proxy_dict EXCEPT ![proxy._mod] = (key :> val) @@ @]]

\* BlockedCallModule.__setattr__
BlockedCallModule_setattr(proxy, key, val) ==
    [mod_attrs |-> [mod_attrs EXCEPT ![proxy._mod][key] = val],
     proxy_dict |-> proxy_dict]

\* The proxies that block_calls has made; they stay referenced by top-level
\* code ('import random') after sys.modules is put back.
Proxies == {BlockedCallModule(name, Allowlist(name)) : name \in DOMAIN ORIG_MODULES}

\* Mutation: what is recorded is the entry of sys.modules after it has been
\* replaced.
block_calls_RecordsFacade(name, allowlist) ==
    [sys_modules |-> [sys_modules EXCEPT ![name] = BlockedCallModule(name, allowlist)],
     ORIG_MODULES |-> (name :> BlockedCallModule(name, allowlist)) @@ ORIG_MODULES]

\* import_patch_manager.block_calls, as the import policies of the modules in
\* BlockedNames call it once the module has been executed.
block_calls(name, allowlist) ==
    [sys_modules |-> [sys_modules EXCEPT ![name] = BlockedCallModule(name, allowlist)],
     ORIG_MODULES |-> (name :> RealModule(name)) @@ ORIG_MODULES]

BlockCalls(name) ==
    /\ topLevelDone
    /\ PatchFinderInstalled
    /\ name \notin DOMAIN ORIG_MODULES
    /\ LET b == block_calls(name, Allowlist(name)) IN
        /\ sys_modules' = b.sys_modules
        /\ ORIG_MODULES' = b.ORIG_MODULES
    /\ last' = [op |-> "block_calls", mod |-> name]
    /\ UNCHANGED <<loadVars, flagVars, ALLOWED_ENTROPY_CALLS, scopeVars, primVars,
                   sys_meta_path, attrVars, held, runVars>>

\* Top-level or request code reads proxy.key and keeps the value.
ProxyGetattr(proxy, key) ==
    /\ LET v == BlockedCallModule_getattribute(proxy, key) IN
        /\ held' = v
        /\ last' = [op |-> "getattr", mod |-> proxy._mod, key |-> key,
                    allowed |-> key \in proxy._allow_list, result |-> v,
                    phase |-> IPM_IN_REQUEST_CONTEXT]
    /\ UNCHANGED <<loadVars, flagVars, ALLOWED_ENTROPY_CALLS, scopeVars, primVars, importVars,
                   attrVars, runVars>>

\* The kept value is called.
CallHeld(arg) ==
    /\ callable(held)
    /\ LET r == IF held.kind = "wrapper" THEN wrapper(held, arg)
                ELSE Call(held, arg) IN
        last' = [op |-> "call", callee |-> held, arg |-> arg,
                 raised |-> r.raised, msg |-> r.msg, ret |-> r.ret,
                 ran |-> r.ran, phase |-> IPM_IN_REQUEST_CONTEXT]
    /\ UNCHANGED <<loadVars, flagVars, ALLOWED_ENTROPY_CALLS, scopeVars, primVars, importVars,
                   attrVars, held, runVars>>

\* proxy.key = val
ProxySetattr(proxy, key, val) ==
    /\ writes < MaxWrites
    /\ LET w == BlockedCallModule_setattr(proxy, key, val) IN
        /\ mod_attrs' = w.mod_attrs
        /\ proxy_dict' = w.proxy_dict
    /\ writes' = writes + 1
    /\ last' = [op |-> "proxy_setattr", mod |-> proxy._mod, key |-> key, val |-> val]
    /\ UNCHANGED <<loadVars, flagVars, ALLOWED_ENTROPY_CALLS, scopeVars, primVars, importVars,
                   held, runVars>>

\* module.key = val, on the real module object.
ModuleSetattr(name, key, val) ==
    /\ writes < MaxWrites
    /\ name \in DOMAIN ORIG_MODULES
    /\ mod_attrs' = [mod_attrs EXCEPT ![name][key] = val]
    /\ writes' = writes + 1
    /\ last' = [op |-> "module_setattr", mod |-> name, key |-> key, val |-> val]
    /\ UNCHANGED <<loadVars, flagVars, ALLOWED_ENTROPY_CALLS, scopeVars, primVars, importVars,
                   proxy_dict, held, runVars>>

\* ----------------------------------------------------------- registration

\* A call of one of the three register functions with both arguments given.
\* Registrations are made while modules are imported, before before_top_level.
Register(field, name, val) ==
    /\ ~topLevelDone
    /\ patches' = CASE field = "create" -> register_create_patch(patches, name, val)
                    [] field = "exec" -> register_exec_patch(patches, name, val)
                    [] OTHER -> register_before_first_request(patches, name, val)
    /\ last' = [op |-> "register", field |-> field, name |-> name, val |-> val,
                before |-> patches]
    /\ UNCHANGED <<flagVars, ALLOWED_ENTROPY_CALLS, scopeVars, primVars, importVars,
                   attrVars, held, runVars, before_first_request_handlers, loading,
                   imports, executed, IMPORTED_RUST_PACKAGE>>

\* A register function used as a decorator with the name alone.
Decorate(field, name, f) ==
    /\ ~topLevelDone
    /\ LET r == decorator(field, patches, name, f) IN
        /\ patches' = r.patches
        /\ last' = [op |-> "decorate", field |-> field, name |-> name, val |-> f,
                    ret |-> r.ret, before |-> patches]
    /\ UNCHANGED <<flagVars, ALLOWED_ENTROPY_CALLS, scopeVars, primVars, importVars,
                   attrVars, held, runVars, before_first_request_handlers, loading,
                   imports, executed, IMPORTED_RUST_PACKAGE>>

DecorateCalls ==
    \/ \E name \in RegNames, f \in RegContextManagers : Decorate("create", name, f)
    \/ \E name \in RegNames, f \in RegContextManagers : Decorate("exec", name, f)
    \/ \E name \in RegNames, f \in RegHandlers :
          Decorate("before_first_request", name, f)

RegisterCalls ==
    \/ \E name \in RegNames, val \in RegContextManagers : Register("create", name, val)
    \/ \E name \in RegNames, val \in RegContextManagers : Register("exec", name, val)
    \/ \E name \in RegNames, val \in RegHandlers :
          Register("before_first_request", name, val)

\* ------------------------------------------------------- module loading

Loader(finder) == [kind |-> "loader", finder |-> finder]
ModuleSpec(name, loader) == [kind |-> "spec", name |-> name, loader |-> loader]

\* PatchLoader.__init__
PatchLoader(orig_loader, patch_info) ==
    [kind |-> "PatchLoader", orig_loader |-> orig_loader, patch_info |-> patch_info]

\* NoSslFinder(): the k-th instance alive.
NoSslFinder(k) == "NoSslFinder#" \o ToString(k)

\* isinstance(finder, NoSslFinder)
isinstance_NoSslFinder(finder) == \E k \in 1..(MaxDepth + 1) : finder = NoSslFinder(k)

\* raise ModuleNotFoundError(name=fullname)
ModuleNotFoundError(fullname) ==
    [kind |-> "raise", exc |-> "ModuleNotFoundError", name |-> fullname]

\* Mutation: NoSslFinder declines every name.
NoSslFinder_find_spec_Declines(fullname) == NoneVal

\* NoSslFinder.find_spec
NoSslFinder_find_spec(fullname) ==
    IF fullname = "ssl" THEN ModuleNotFoundError(fullname) ELSE NoneVal

\* find_spec of the finders that the interpreter keeps in sys.meta_path and of
\* a NoSslFinder.
finder_find_spec(finder, fullname) ==
    IF isinstance_NoSslFinder(finder) THEN NoSslFinder_find_spec(fullname)
    ELSE IF \/ finder = "PathFinder" /\ fullname \in Installed \cup Frozen
            \/ finder = "FrozenImporter" /\ fullname \in Frozen
         THEN ModuleSpec(fullname, Loader(finder))
         ELSE NoneVal

\* Mutation: the loop of find_spec skips no finder.
isinstance_PatchFinder_Never(finder) == FALSE

\* isinstance(finder, PatchFinder)
isinstance_PatchFinder(finder) == finder = "PatchFinder"

\* The loop of PatchFinder.find_spec over sys.meta_path, with its else branch:
\* the spec it ends with and the finders whose find_spec it has called, in
\* order. A PatchFinder that is not skipped is called, walks the same meta path
\* and comes to itself again, which ends in RecursionError.
RECURSIVE remaining_walk(_, _)
remaining_walk(finders, fullname) ==
    IF finders = <<>> THEN [spec |-> NoneVal, consulted |-> <<>>, raised |-> "none"]
    ELSE IF isinstance_PatchFinder(Head(finders))
    THEN remaining_walk(Tail(finders), fullname)
    ELSE IF Head(finders) = "PatchFinder"
    THEN [spec |-> NoneVal, consulted |-> <<Head(finders)>>,
          raised |-> "RecursionError"]
    ELSE LET spec == finder_find_spec(Head(finders), fullname)
             r == remaining_walk(Tail(finders), fullname)
         IN  IF spec # NoneVal
             THEN [spec |-> spec, consulted |-> <<Head(finders)>>, raised |-> "none"]
             ELSE [r EXCEPT !.consulted = <<Head(finders)>> \o @]

\* Mutation: the loop does not break and ends with the spec of the last finder
\* that has the module.
remaining_find_spec_Last(finders, fullname) ==
    LET found == {i \in DOMAIN finders :
                     /\ finders[i] # "PatchFinder"
                     /\ finder_find_spec(finders[i], fullname) # NoneVal}
    IN  IF found = {} THEN NoneVal
        ELSE finder_find_spec(finders[CHOOSE i \in found : \A j \in found : j <= i],
                              fullname)

\* The spec that the loop of PatchFinder.find_spec ends with.
remaining_find_spec(finders, fullname) == remaining_walk(finders, fullname).spec

\* Mutation: a name without a registration is not declined but wrapped with
\* an empty PatchInfo.
PatchFinder_find_spec_NoDecline(fullname) ==
    LET spec == remaining_find_spec(sys_meta_path, fullname)
        import_context == IF fullname \in DOMAIN patches THEN patches[fullname]
                          ELSE PatchInfo IN
    IF spec = NoneVal THEN NoneVal
    ELSE [spec EXCEPT !.loader = PatchLoader(spec.loader, import_context)]

\* Mutation: when no remaining finder has the module, a spec is made up.
PatchFinder_find_spec_WrapsMissing(fullname) ==
    IF fullname \notin DOMAIN patches THEN NoneVal
    ELSE LET spec == remaining_find_spec(sys_meta_path, fullname)
             orig == IF spec = NoneVal
                     THEN ModuleSpec(fullname, Loader("PatchFinder")) ELSE spec IN
         [orig EXCEPT !.loader = PatchLoader(orig.loader, patches[fullname])]

\* PatchFinder.find_spec
PatchFinder_find_spec(fullname) ==
    IF fullname \notin DOMAIN patches THEN NoneVal
    ELSE LET spec == remaining_find_spec(sys_meta_path, fullname) IN
         IF spec = NoneVal THEN NoneVal
         ELSE [spec EXCEPT !.loader = PatchLoader(spec.loader, patches[fullname])]

\* The interpreter's walk of the meta path for an import statement: the first
\* finder that returns a spec wins, None when none does.
RECURSIVE meta_path_find_spec(_, _)
meta_path_find_spec(finders, fullname) ==
    IF finders = <<>> THEN NoneVal
    ELSE LET spec == IF Head(finders) = "PatchFinder"
                     THEN PatchFinder_find_spec(fullname)
                     ELSE finder_find_spec(Head(finders), fullname) IN
         IF spec # NoneVal THEN spec
         ELSE meta_path_find_spec(Tail(finders), fullname)

\* functools.partial(handler, module)
partial(handler, module) == [kind |-> "partial", fn |-> handler, module |-> module]

\* Mutation: a handler that is already pending for the module is not appended
\* again.
PatchLoader_exec_module_Once(loader, module) ==
    LET entry == partial(loader.patch_info.before_first_request, module) IN
    IF /\ loader.patch_info.before_first_request # "None"
       /\ \A i \in DOMAIN before_first_request_handlers :
             before_first_request_handlers[i] # entry
    THEN Append(before_first_request_handlers, entry)
    ELSE before_first_request_handlers

\* Mutation: the handler replaces the list instead of being appended to it.
PatchLoader_exec_module_Replace(loader, module) ==
    IF loader.patch_info.before_first_request # "None"
    THEN <<partial(loader.patch_info.before_first_request, module)>>
    ELSE before_first_request_handlers

\* Mutation: a handler is appended whether or not one is registered.
PatchLoader_exec_module_Always(loader, module) ==
    Append(before_first_request_handlers,
           partial(loader.patch_info.before_first_request, module))

\* PatchLoader.exec_module up to its with statement: the handlers list.
PatchLoader_exec_module(loader, module) ==
    IF loader.patch_info.before_first_request # "None"
    THEN Append(before_first_request_handlers,
                partial(loader.patch_info.before_first_request, module))
    ELSE before_first_request_handlers

\* Mutation: rust_package_context opens its allowance on every entry.
rust_package_context_Always(version, imported) ==
    [allow |-> 1, block |-> FALSE, imported |-> TRUE]

\* entropy_import_context.rust_package_context up to its yield: the allowance
\* it opens (-1 for none) and IMPORTED_RUST_PACKAGE after it.
rust_package_context(version, imported) ==
    IF AtLeast(version, <<3, 13>>) /\ imported
    THEN [allow |-> -1, block |-> FALSE, imported |-> imported]
    ELSE [allow |-> 1, block |-> FALSE, imported |-> TRUE]

\* What entering the context manager cm does in the current state; "None"
\* stands for no context manager at all.
EnterContext(cm) ==
    IF cm = "rust_package_context"
    THEN rust_package_context(sys_version_info, IMPORTED_RUST_PACKAGE)
    ELSE [allow |-> ContextManager(cm).allow, block |-> ContextManager(cm).block,
          imported |-> IMPORTED_RUST_PACKAGE]

\* Mutation: create_module enters the exec context manager.
PatchLoader_create_module_ExecPolicy(loader) ==
    IF loader.kind = "PatchLoader" THEN loader.patch_info.exec ELSE "None"

\* The context manager that create_module of the loader enters:
\* PatchLoader.create_module enters patch_info.create, the loader of the
\* interpreter none.
PatchLoader_create_module(loader) ==
    IF loader.kind = "PatchLoader" THEN loader.patch_info.create ELSE "None"

\* The context manager that exec_module of the loader enters.
PatchLoader_exec_context(loader) ==
    IF loader.kind = "PatchLoader" THEN loader.patch_info.exec ELSE "None"

\* The context manager around the module body.
ExecContext(loader) == EnterContext(PatchLoader_exec_context(loader))

\* Events of a load, in order.
Ev(what, arg) == <<what, arg>>
EnterEv(cm) == IF cm = "None" THEN <<>> ELSE <<Ev("enter", cm)>>
ExitEv(cm) == IF cm = "None" THEN <<>> ELSE <<Ev("exit", cm)>>

\* 'import name' over the meta path 'finders', up to the call of the real
\* loader's create_module: cache lookup, find_spec, and create_module up to
\* orig_loader.create_module.
import_begin(finders, name) ==
    LET spec == meta_path_find_spec(finders, name)
        create == PatchLoader_create_module(spec.loader)
        cm == EnterContext(create)
        e == allow_bad_entropy_calls_enter(cm.allow)
        same == [spec |-> NoneVal, entered |-> <<>>, sys_modules |-> sys_modules,
                 handlers |-> before_first_request_handlers,
                 budget |-> ALLOWED_ENTROPY_CALLS, guards |-> guards,
                 imported |-> IMPORTED_RUST_PACKAGE,
                 loading |-> NoneVal]
    IN  IF sys_modules[name] # NoneVal
        THEN [outcome |-> "cached", raised |-> "none"] @@ same
        ELSE IF spec = NoneVal
        THEN [outcome |-> "failed", raised |-> "ModuleNotFoundError"] @@ same
        ELSE IF spec.kind = "raise"
        THEN [outcome |-> "failed", raised |-> spec.exc, spec |-> spec] @@ same
        ELSE [outcome |-> "creating", raised |-> "none", spec |-> spec,
              entered |-> IF create = "None" THEN <<>> ELSE <<create>>,
              sys_modules |-> sys_modules,
              handlers |-> before_first_request_handlers,
              budget |-> IF cm.allow >= 0 THEN e.budget ELSE ALLOWED_ENTROPY_CALLS,
              guards |-> IF cm.allow >= 0 THEN Append(guards, e.frame) ELSE guards,
              imported |-> cm.imported,
              loading |-> [kind |-> "loading", name |-> name, loader |-> spec.loader,
                           step |-> "create", cm |-> cm,
                           trace |-> EnterEv(create) \o <<Ev("call", "create_module")>>]]

\* An import statement of top-level or request code starts.
ImportBegin(name) ==
    /\ topLevelDone
    /\ loading = NoneVal
    /\ guards = <<>>
    /\ imports < MaxImports
    /\ LET b == import_begin(sys_meta_path, name) IN
        /\ sys_modules' = b.sys_modules
        /\ before_first_request_handlers' = b.handlers
        /\ ALLOWED_ENTROPY_CALLS' = b.budget
        /\ guards' = b.guards
        /\ IMPORTED_RUST_PACKAGE' = b.imported
        /\ loading' = b.loading
        /\ last' = [op |-> "import", name |-> name, outcome |-> b.outcome,
                    raised |-> b.raised, spec |-> b.spec, entered |-> b.entered,
                    installed |-> PatchFinderInstalled,
                    phase |-> EP_IN_REQUEST_CONTEXT]
    /\ imports' = imports + 1
    /\ drawn' = 0
    /\ UNCHANGED <<flagVars, hadInner, primVars, sys_meta_path, ORIG_MODULES,
                   attrVars, held, runVars, patches, executed>>

\* The release of the context manager of the step in progress when what it
\* wraps has returned or raised.
release(body) ==
    IF loading.cm.allow < 0
    THEN [raised |-> IF body = "returned" THEN "none" ELSE "body",
          budget |-> ALLOWED_ENTROPY_CALLS, guards |-> guards]
    ELSE LET r == IF body = "returned" THEN allow_bad_entropy_calls_exit(Top)
                  ELSE allow_bad_entropy_calls_throw(Top) IN
         [raised |-> r.raised, budget |-> r.budget, guards |-> Pop]

\* The real loader's create_module has returned or raised: the rest of
\* PatchLoader.create_module and, when the module was made, its entry in
\* sys.modules and exec_module up to the first statement of the module body
\* (the handler, the exec context manager, orig_loader.exec_module). The exec
\* context manager is entered on the allowance that the create one left;
\* 'enter' tells whether entering it raised, after which the import has failed
\* and the entry in sys.modules is taken out again.
import_created(body, enter) ==
    LET name == loading.name
        loader == loading.loader
        module == RealModule(name)
        create == PatchLoader_create_module(loader)
        exec == PatchLoader_exec_context(loader)
        r == release(body)
        cm == ExecContext(loader)
        e == allow_bad_entropy_calls_enter(cm.allow)
        handlers == IF loader.kind = "PatchLoader"
                    THEN PatchLoader_exec_module(loader, module)
                    ELSE before_first_request_handlers
        created == loading.trace
                     \o <<Ev(IF body = "returned" THEN "return" ELSE "raise",
                             "create_module")>>
                     \o ExitEv(create)
        appended == created
                      \o (IF handlers # before_first_request_handlers
                          THEN <<Ev("append", handlers[Len(handlers)].fn)>>
                          ELSE <<>>)
        entered == appended \o EnterEv(exec) \o <<Ev("call", "exec_module")>>
    IN  IF r.raised # "none"
        THEN [raised |-> r.raised, budget |-> r.budget, guards |-> r.guards,
              sys_modules |-> sys_modules,
              handlers |-> before_first_request_handlers,
              imported |-> IMPORTED_RUST_PACKAGE,
              exec_called |-> FALSE,
              trace |-> created, loading |-> NoneVal]
        ELSE IF enter = "raised"
        THEN [raised |-> "enter", budget |-> r.budget, guards |-> r.guards,
              sys_modules |-> sys_modules,
              handlers |-> handlers,
              imported |-> IMPORTED_RUST_PACKAGE,
              exec_called |-> TRUE,
              trace |-> appended, loading |-> NoneVal]
        ELSE [raised |-> "none",
              budget |-> IF cm.allow >= 0 THEN e.budget ELSE r.budget,
              guards |-> IF cm.allow >= 0
                         THEN Append(r.guards, [e.frame EXCEPT !.old = r.budget])
                         ELSE r.guards,
              sys_modules |-> [sys_modules EXCEPT ![name] = module],
              handlers |-> handlers,
              imported |-> cm.imported,
              exec_called |-> TRUE,
              trace |-> entered,
              loading |-> [loading EXCEPT !.step = "exec", !.cm = cm,
                                          !.trace = entered]]

\* The exec context managers whose code in front of the yield can raise: the
\* registered ones, which are generators, and not nullcontext.
EnterCanRaise(loader) ==
    PatchLoader_exec_context(loader) \notin {"None", "nullcontext"}

ImportCreated(body, enter) ==
    /\ loading # NoneVal
    /\ loading.step = "create"
    /\ enter = "raised" =>
          /\ EnterCanRaise(loading.loader)
          /\ import_created(body, "entered").raised = "none"
    /\ LET r == import_created(body, enter) IN
        /\ ALLOWED_ENTROPY_CALLS' = r.budget
        /\ guards' = r.guards
        /\ sys_modules' = r.sys_modules
        /\ before_first_request_handlers' = r.handlers
        /\ IMPORTED_RUST_PACKAGE' = r.imported
        /\ loading' = r.loading
        /\ executed' = IF r.exec_called THEN Append(executed, loading.name)
                       ELSE executed
        /\ last' = [op |-> "import_created", name |-> loading.name, body |-> body,
                    raised |-> r.raised, loader |-> loading.loader,
                    consumed |-> drawn, trace |-> r.trace,
                    phase |-> EP_IN_REQUEST_CONTEXT]
    /\ drawn' = 0
    /\ UNCHANGED <<flagVars, hadInner, primVars, sys_meta_path, ORIG_MODULES,
                   attrVars, held, runVars, patches, imports>>

\* The end of the import in progress. 'body' tells how the module body ended;
\* a body that returned is followed by the rest of the context manager, and a
\* failed import is taken out of sys.modules again.
import_end(body) ==
    LET name == loading.name
        cm == loading.cm
        r == release(body)
        b == block_calls(name, Allowlist(name))
    IN  [raised |-> r.raised,
         budget |-> r.budget,
         guards |-> r.guards,
         sys_modules |-> IF r.raised # "none"
                         THEN [sys_modules EXCEPT ![name] = NoneVal]
                         ELSE IF cm.block THEN b.sys_modules ELSE sys_modules,
         ORIG_MODULES |-> IF r.raised = "none" /\ cm.block
                          THEN b.ORIG_MODULES ELSE ORIG_MODULES,
         trace |-> loading.trace
                     \o <<Ev(IF body = "returned" THEN "return" ELSE "raise",
                             "exec_module")>>
                     \o ExitEv(PatchLoader_exec_context(loading.loader))]

\* What module.validate_core_schema(None) can do before it raises SchemaError:
\* make its one draw or make none.
ProbeOutcomes == {"consumed", "unconsumed"}

\* The finally clause of pydantic_core_context, run on the allowance 'budget'
\* that the with statement of the try clause left: allow_bad_entropy_calls(1)
\* is entered, validate_core_schema(None) draws or not and raises SchemaError,
\* which is thrown in at the yield of allow_bad_entropy_calls, so that nothing
\* after that yield runs, and is then swallowed.
pydantic_core_finally(budget, probe) ==
    LET e == [old |-> budget, n |-> 1]
        g == IF probe = "consumed" THEN getentropy_at(e.n) ELSE OK(e.n)
    IN  [budget |-> g.budget, raised |-> "none"]

\* What the exec context manager of the loader does after its with statement.
Probes(loader) ==
    IF PatchLoader_exec_context(loader) = "pydantic_core_context"
    THEN ProbeOutcomes ELSE {"none"}

ImportEnd(body) ==
    /\ loading # NoneVal
    /\ loading.step = "exec"
    /\ \E probe \in Probes(loading.loader) :
       LET r0 == import_end(body)
           r == IF probe = "none" THEN r0
                ELSE [r0 EXCEPT !.budget = pydantic_core_finally(r0.budget, probe).budget]
       IN
        /\ ALLOWED_ENTROPY_CALLS' = r.budget
        /\ guards' = r.guards
        /\ sys_modules' = r.sys_modules
        /\ ORIG_MODULES' = r.ORIG_MODULES
        /\ last' = [op |-> "import_end", name |-> loading.name, body |-> body,
                    raised |-> r.raised, loader |-> loading.loader,
                    consumed |-> drawn, trace |-> r.trace, probe |-> probe,
                    phase |-> EP_IN_REQUEST_CONTEXT]
    /\ loading' = NoneVal
    /\ drawn' = 0
    /\ UNCHANGED <<flagVars, hadInner, primVars, sys_meta_path, attrVars, held,
                   runVars, patches, before_first_request_handlers, imports,
                   executed, IMPORTED_RUST_PACKAGE>>

\* ------------------------------------------------------------- lifecycle

\* Mutation: the finder is put at the end of the meta path.
PatchFinder_install_Append(path) == path \o <<"PatchFinder">>

\* PatchFinder.install
PatchFinder_install(path) == <<"PatchFinder">> \o path

\* Mutation: remove leaves the meta path as it is.
PatchFinder_remove_Keeps(path) == [raised |-> "none", path |-> path]

\* PatchFinder.remove: idx is the index of the first PatchFinder, or where the
\* loop stopped; on an empty path idx is unbound.
PatchFinder_remove(path) ==
    IF path = <<>> THEN [raised |-> "UnboundLocalError", path |-> path]
    ELSE LET found == {i \in 1..Len(path) : path[i] = "PatchFinder"}
             idx == IF found # {}
                    THEN CHOOSE i \in found : \A j \in found : i <= j
                    ELSE Len(path)
         IN [raised |-> "none",
             path |-> SubSeq(path, 1, idx - 1) \o SubSeq(path, idx + 1, Len(path))]

\* import_patch_manager.unblock_calls: the flag is set by BeforeFirstRequest.
unblock_calls(mods) ==
    [name \in DOMAIN mods |->
        IF name \in DOMAIN ORIG_MODULES THEN ORIG_MODULES[name] ELSE mods[name]]

\* install_import_patch_manager(), called once more than before_top_level
\* calls it.
Install ==
    /\ Cardinality({i \in DOMAIN sys_meta_path : sys_meta_path[i] = "PatchFinder"})
          < MaxInstalls
    /\ sys_meta_path' = PatchFinder_install(sys_meta_path)
    /\ last' = [op |-> "install"]
    /\ UNCHANGED <<loadVars, flagVars, ALLOWED_ENTROPY_CALLS, scopeVars, primVars,
                   sys_modules, ORIG_MODULES, attrVars, held, runVars>>

\* PatchFinder.remove()
Remove ==
    /\ sys_meta_path' = PatchFinder_remove(sys_meta_path).path
    /\ last' = [op |-> "remove", raised |-> PatchFinder_remove(sys_meta_path).raised]
    /\ UNCHANGED <<loadVars, flagVars, ALLOWED_ENTROPY_CALLS, scopeVars, primVars,
                   sys_modules, ORIG_MODULES, attrVars, held, runVars>>

\* list.remove(x): the first item equal to x is taken out, ValueError when
\* there is none.
list_remove(list, x) ==
    LET found == {i \in 1..Len(list) : list[i] = x} IN
    IF found = {} THEN [raised |-> "ValueError", list |-> list]
    ELSE LET idx == CHOOSE i \in found : \A j \in found : i <= j IN
         [raised |-> "none",
          list |-> SubSeq(list, 1, idx - 1) \o SubSeq(list, idx + 1, Len(list))]

\* no_ssl up to its yield: a new NoSslFinder goes to the front of sys.meta_path
\* and ssl is popped from sys.modules.
no_ssl_enter ==
    LET f == NoSslFinder(Len(no_ssl_frames) + 1) IN
    [frame |-> [f |-> f, ssl |-> sys_modules["ssl"], path |-> sys_meta_path],
     sys_modules |-> [sys_modules EXCEPT !["ssl"] = NoneVal],
     sys_meta_path |-> <<f>> \o sys_meta_path]

\* Mutation: the clean-up is not in a finally clause and is skipped when the
\* body raises.
no_ssl_exit_NoFinally(frame, body) ==
    LET r == list_remove(sys_meta_path, frame.f) IN
    IF body = "raised"
    THEN [raised |-> "body", sys_meta_path |-> sys_meta_path,
          sys_modules |-> sys_modules]
    ELSE [raised |-> r.raised, sys_meta_path |-> r.list,
          sys_modules |-> IF r.raised = "none" /\ frame.ssl # NoneVal
                          THEN [sys_modules EXCEPT !["ssl"] = frame.ssl]
                          ELSE sys_modules]

\* The finally clause of no_ssl, which runs however the body ended.
no_ssl_exit(frame, body) ==
    LET r == list_remove(sys_meta_path, frame.f) IN
    [raised |-> IF r.raised # "none" THEN r.raised
                ELSE IF body = "raised" THEN "body" ELSE "none",
     sys_meta_path |-> r.list,
     sys_modules |-> IF r.raised = "none" /\ frame.ssl # NoneVal
                     THEN [sys_modules EXCEPT !["ssl"] = frame.ssl]
                     ELSE sys_modules]

\* A policy enters 'with no_ssl()'.
NoSslEnter ==
    /\ topLevelDone
    /\ PatchFinderInstalled
    /\ Len(no_ssl_frames) < MaxDepth
    /\ LET e == no_ssl_enter IN
        /\ sys_modules' = e.sys_modules
        /\ sys_meta_path' = e.sys_meta_path
        /\ no_ssl_frames' = Append(no_ssl_frames, e.frame)
        /\ last' = [op |-> "no_ssl_enter", f |-> e.frame.f, ssl |-> e.frame.ssl]
    /\ UNCHANGED <<loadVars, flagVars, ALLOWED_ENTROPY_CALLS, scopeVars, primVars,
                   ORIG_MODULES, attrVars, held, topLevelDone, firstRequestCalls,
                   index>>

\* The body of the innermost no_ssl scope returns or raises.
NoSslExit(body) ==
    /\ no_ssl_frames # <<>>
    /\ LET frame == no_ssl_frames[Len(no_ssl_frames)]
           r == no_ssl_exit(frame, body) IN
        /\ sys_modules' = r.sys_modules
        /\ sys_meta_path' = r.sys_meta_path
        /\ last' = [op |-> "no_ssl_exit", body |-> body, raised |-> r.raised,
                    f |-> frame.f, ssl |-> frame.ssl, path |-> frame.path,
                    depth |-> Len(no_ssl_frames)]
    /\ no_ssl_frames' = SubSeq(no_ssl_frames, 1, Len(no_ssl_frames) - 1)
    /\ UNCHANGED <<loadVars, flagVars, ALLOWED_ENTROPY_CALLS, scopeVars, primVars,
                   ORIG_MODULES, attrVars, held, topLevelDone, firstRequestCalls,
                   index>>

\* Mutation: the loop of index_to_chars does not divide idx.
floor_div_Keeps(idx, base) == idx

\* idx //= base
floor_div(idx, base) == idx \div base

\* The loop of index_to_chars: the list s after n more rounds over the
\* alphabet chars.
RECURSIVE index_to_chars_loop(_, _, _)
index_to_chars_loop(chars, n, idx) ==
    IF n = 0 THEN <<>>
    ELSE <<chars[(idx % Len(chars)) + 1]>>
            \o index_to_chars_loop(chars, n - 1, floor_div(idx, Len(chars)))

\* "".join(s)
RECURSIVE join(_)
join(s) == IF s = <<>> THEN "" ELSE Head(s) \o join(Tail(s))

\* DeterministicRandomNameSequence.index_to_chars for the index idx.
index_to_chars(idx) == join(index_to_chars_loop(characters, NameLength, idx))

\* DeterministicRandomNameSequence.__next__: the index after the call and the
\* name returned.
DeterministicRandomNameSequence_next(idx) ==
    [index |-> idx + 1, name |-> index_to_chars(idx + 1)]

\* next(names) on the sequence.
RandomNameNext ==
    /\ index < MaxNames
    /\ LET r == DeterministicRandomNameSequence_next(index) IN
        /\ index' = r.index
        /\ last' = [op |-> "next", index |-> r.index, name |-> r.name]
    /\ UNCHANGED <<loadVars, flagVars, ALLOWED_ENTROPY_CALLS, scopeVars, primVars,
                   importVars, attrVars, held, topLevelDone, firstRequestCalls,
                   no_ssl_frames>>

\* The interpreter looks for the spec of a module over sys.meta_path.
FindSpec(fullname) ==
    /\ last' = [op |-> "find_spec", name |-> fullname,
                spec |-> meta_path_find_spec(sys_meta_path, fullname),
                walk |-> remaining_walk(sys_meta_path, fullname),
                chain |-> sys_meta_path]
    /\ UNCHANGED <<loadVars, flagVars, ALLOWED_ENTROPY_CALLS, scopeVars, primVars,
                   importVars, attrVars, held, runVars>>

\* entropy_patches.before_top_level
BeforeTopLevel ==
    /\ ~topLevelDone
    /\ os_urandom' = "patch_urandom"
    /\ Random_seed' = "patched_seed"
    /\ sys_meta_path' = PatchFinder_install(sys_meta_path)
    /\ topLevelDone' = TRUE
    /\ last' = [op |-> "before_top_level"]
    /\ UNCHANGED <<loadVars, flagVars, ALLOWED_ENTROPY_CALLS, scopeVars, sys_modules,
                   ORIG_MODULES, attrVars, held, firstRequestCalls, no_ssl_frames,
                   index>>

\* A call f(*args).
Called(fn, args) == [fn |-> fn, args |-> args]

\* The calls that the body of before_first_request makes, in order.
Statements ==
    <<Called("restore_urandom", <<>>), Called("restore_random_seed", <<>>),
      Called("remove_import_patch_manager", <<>>), Called("reseed_rng", <<>>),
      Called("tempfile_restore_random_name_sequence", <<>>)>>

\* entropy_patches.reseed_rng: 'from random import seed' loads random when
\* it is not in sys.modules, over the meta path as it is by then; the draws of
\* the module body and of seed() are made with IN_REQUEST_CONTEXT set.
reseed_rng(mods, path) ==
    IF mods["random"] # NoneVal THEN [raised |-> "none", sys_modules |-> mods]
    ELSE IF meta_path_find_spec(path, "random") = NoneVal
    THEN [raised |-> "ModuleNotFoundError", sys_modules |-> mods]
    ELSE [raised |-> "none",
          sys_modules |-> [mods EXCEPT !["random"] = RealModule("random")]]

\* Mutation: the flag is flipped instead of set.
before_first_request_Toggle ==
    LET r == PatchFinder_remove(sys_meta_path)
        s == reseed_rng(unblock_calls(sys_modules), r.path) IN
    [EP_IN_REQUEST_CONTEXT |-> ~EP_IN_REQUEST_CONTEXT,
     os_urandom |-> "orig_urandom",
     Random_seed |-> "orig_Random_seed",
     sys_meta_path |-> r.path,
     IPM_IN_REQUEST_CONTEXT |->
        IF r.raised = "none" THEN TRUE ELSE IPM_IN_REQUEST_CONTEXT,
     sys_modules |-> IF r.raised = "none" THEN s.sys_modules ELSE sys_modules,
     before_first_request_handlers |-> before_first_request_handlers,
     called |-> IF r.raised # "none" THEN SubSeq(Statements, 1, 3)
                ELSE IF s.raised # "none" THEN SubSeq(Statements, 1, 4)
                ELSE Statements,
     raised |-> IF r.raised # "none" THEN r.raised ELSE s.raised]

\* entropy_patches.before_first_request. The runtime calls it between the
\* top-level imports and the first request, so no import is in progress.
\* reseed_rng draws through the restored Random.seed with the flag set, which
\* the entropy source grants without touching the allowance. The last
\* statement calls tempfile_restore_random_name_sequence without the module
\* argument that its definition in entropy_import_context.py takes; it comes
\* after every assignment recorded here. No statement of the body, and none
\* of remove_import_patch_manager, reads before_first_request_handlers.
before_first_request ==
    LET r == PatchFinder_remove(sys_meta_path)
        s == reseed_rng(unblock_calls(sys_modules), r.path) IN
    [EP_IN_REQUEST_CONTEXT |-> TRUE,
     os_urandom |-> "orig_urandom",
     Random_seed |-> "orig_Random_seed",
     sys_meta_path |-> r.path,
     IPM_IN_REQUEST_CONTEXT |->
        IF r.raised = "none" THEN TRUE ELSE IPM_IN_REQUEST_CONTEXT,
     sys_modules |-> IF r.raised = "none" THEN s.sys_modules ELSE sys_modules,
     before_first_request_handlers |-> before_first_request_handlers,
     called |-> IF r.raised # "none" THEN SubSeq(Statements, 1, 3)
                ELSE IF s.raised # "none" THEN SubSeq(Statements, 1, 4)
                ELSE Statements,
     raised |-> IF r.raised # "none" THEN r.raised ELSE s.raised]

BeforeFirstRequest ==
    /\ topLevelDone
    /\ guards = <<>>
    /\ no_ssl_frames = <<>>
    /\ loading = NoneVal
    /\ firstRequestCalls < MaxFirstRequestCalls
    /\ LET b == before_first_request IN
        /\ EP_IN_REQUEST_CONTEXT' = b.EP_IN_REQUEST_CONTEXT
        /\ os_urandom' = b.os_urandom
        /\ Random_seed' = b.Random_seed
        /\ sys_meta_path' = b.sys_meta_path
        /\ IPM_IN_REQUEST_CONTEXT' = b.IPM_IN_REQUEST_CONTEXT
        /\ sys_modules' = b.sys_modules
        /\ before_first_request_handlers' = b.before_first_request_handlers
        /\ last' = [op |-> "before_first_request", raised |-> b.raised,
                    called |-> b.called,
                    pending |-> before_first_request_handlers,
                    chain |-> sys_meta_path,
                    blocked |-> ORIG_MODULES]
        /\ executed' = IF b.sys_modules["random"] # sys_modules["random"]
                          /\ sys_modules["random"] = NoneVal
                       THEN Append(executed, "random") ELSE executed
    /\ firstRequestCalls' = firstRequestCalls + 1
    /\ UNCHANGED <<AE_IN_REQUEST_CONTEXT, ALLOWED_ENTROPY_CALLS, scopeVars,
                   ORIG_MODULES, attrVars, held, topLevelDone, patches, loading,
                   imports, IMPORTED_RUST_PACKAGE, no_ssl_frames, index>>

\* ---------------------------------------------------------- specification

Lifecycle ==
    \/ BeforeTopLevel
    \/ BeforeFirstRequest
    \/ SetInRequestContext

EntropyCalls ==
    \/ \E fn \in {"orig_urandom", "patch_urandom"} : CallUrandom(fn)
    \/ \E fn \in {"orig_Random_seed", "patched_seed"}, val \in SeedValues :
          CallSeed(fn, val)
    \/ RaiseUnlessEntropyAllowed
    \/ \E n \in 0..MaxAllowance : AllowEnter(n)
    \/ AllowExit
    \/ AllowUnwind

ImportCalls ==
    \/ \E name \in ModuleNames : ImportBegin(name)
    \/ \E body \in {"returned", "raised"}, enter \in {"entered", "raised"} :
          ImportCreated(body, enter)
    \/ \E body \in {"returned", "raised"} : ImportEnd(body)
    \/ \E fn \in {"orig_urandom", "patch_urandom"} : CallUrandom(fn)

ProxyCalls ==
    \/ \E name \in BlockedNames : BlockCalls(name)
    \/ \E proxy \in Proxies : \E key \in AttrNames(proxy._mod) :
          ProxyGetattr(proxy, key)
    \/ \E arg \in Args : CallHeld(arg)
    \/ \E proxy \in Proxies : \E key \in AttrNames(proxy._mod) :
          \E val \in WriteValues : ProxySetattr(proxy, key, val)
    \/ \E name \in BlockedNames : \E key \in AttrNames(name) :
          \E val \in WriteValues : ModuleSetattr(name, key, val)

Next ==
    Lifecycle \/ EntropyCalls \/ ProxyCalls \/ ImportCalls \/ RegisterCalls
       \/ DecorateCalls

Spec == Init /\ [][Next]_vars

\* The allowance cell and the proxies share no state, so each is also checked
\* alone with the lifecycle.
NextEntropy == Lifecycle \/ EntropyCalls
SpecEntropy == Init /\ [][NextEntropy]_vars

NextProxy == Lifecycle \/ ProxyCalls
SpecProxy == Init /\ [][NextProxy]_vars

\* The registrations made before before_top_level.
NextRegister == RegisterCalls \/ DecorateCalls
SpecRegister == Init /\ [][NextRegister]_vars

\* Lookups over the meta paths that installing and removing PatchFinders make,
\* with and without a registration for a frozen module.
NextFinder ==
    \/ Install
    \/ Remove
    \/ \E fullname \in ModuleNames \cup Frozen : FindSpec(fullname)
    \/ \E name \in Frozen : Register("exec", name, "tempfile_context")
SpecFinder == Init /\ [][NextFinder]_vars

\* Imports with the draws that module bodies make.
NextImport == Lifecycle \/ ImportCalls
SpecImport == Init /\ [][NextImport]_vars

\* Imports of the modules registered with rust_package_context, in every
\* order.
RustCalls ==
    \/ \E name \in RustNames : ImportBegin(name)
    \/ \E body \in {"returned", "raised"}, enter \in {"entered", "raised"} :
          ImportCreated(body, enter)
    \/ \E body \in {"returned", "raised"} : ImportEnd(body)
    \/ \E fn \in {"orig_urandom", "patch_urandom"} : CallUrandom(fn)

NextRust == Lifecycle \/ RustCalls
SpecRust == Init /\ [][NextRust]_vars

\* Imports of pydantic_core on every allowance that failed imports and, between
\* imports, failed scopes leave.
PydanticCalls ==
    \/ \E name \in PydanticNames : ImportBegin(name)
    \/ \E body \in {"returned", "raised"}, enter \in {"entered", "raised"} :
          ImportCreated(body, enter)
    \/ \E body \in {"returned", "raised"} : ImportEnd(body)
    \/ \E fn \in {"orig_urandom", "patch_urandom"} : CallUrandom(fn)
    \/ loading = NoneVal /\ \E n \in 0..MaxAllowance : AllowEnter(n)
    \/ loading = NoneVal /\ AllowExit
    \/ loading = NoneVal /\ AllowUnwind

NextPydantic == Lifecycle \/ PydanticCalls
SpecPydantic == Init /\ [][NextPydantic]_vars

\* no_ssl scopes, nested, around imports of ssl and of a module that they do
\* not hide; a scope is entered when no import is half way.
SslCalls ==
    \/ loading = NoneVal /\ NoSslEnter
    \/ \E body \in {"returned", "raised"} : NoSslExit(body)
    \/ \E name \in SslNames \cup {"json"} : ImportBegin(name)
    \/ \E body \in {"returned", "raised"}, enter \in {"entered", "raised"} :
          ImportCreated(body, enter)
    \/ \E body \in {"returned", "raised"} : ImportEnd(body)
    \/ \E fullname \in SslNames \cup {"json"} : FindSpec(fullname)

NextSsl == BeforeTopLevel \/ BeforeFirstRequest \/ SslCalls
SpecSsl == Init /\ [][NextSsl]_vars

\* The names that one DeterministicRandomNameSequence hands out.
NextNames == RandomNameNext
SpecNames == Init /\ [][NextNames]_vars

\* Allowances at and beyond the two ends of the range of the cell.
CellInputs == {SCHAR_MIN - 1, SCHAR_MIN, -1, 1, SCHAR_MAX, SCHAR_MAX + 1}

\* Scopes that are opened with the values of CellInputs, one at a time, and the
\* draws made in them.
CellCalls ==
    \/ guards = <<>> /\ \E n \in CellInputs : AllowEnter(n)
    \/ AllowExit
    \/ AllowUnwind
    \/ \E fn \in {"orig_urandom", "patch_urandom"} : CallUrandom(fn)

NextCell == Lifecycle \/ CellCalls
SpecCell == Init /\ [][NextCell]_vars

\* ------------------------------------------------------------ properties

Draw == last.op = "urandom" \/ (last.op = "seed" /\ last.val = "None")

\* C1: every IN_REQUEST_CONTEXT flag starts False and, once True, no step of
\* any operation sets it back to False.
C1_PhaseMonotonic ==
    /\ ~AE_IN_REQUEST_CONTEXT /\ ~EP_IN_REQUEST_CONTEXT /\ ~IPM_IN_REQUEST_CONTEXT
    /\ [][/\ AE_IN_REQUEST_CONTEXT => AE_IN_REQUEST_CONTEXT'
          /\ EP_IN_REQUEST_CONTEXT => EP_IN_REQUEST_CONTEXT'
          /\ IPM_IN_REQUEST_CONTEXT => IPM_IN_REQUEST_CONTEXT']_vars

\* An operation other than before_first_request has run after the second
\* before_first_request, with the flags still set.
C1_Witness ==
    /\ firstRequestCalls >= 2
    /\ last.op \notin {"before_first_request", "_set_in_request_context"}
    /\ EP_IN_REQUEST_CONTEXT /\ IPM_IN_REQUEST_CONTEXT

\* C2: outside request context a draw made with the allowance at 0 fails with
\* OSError(EIO) and leaves it at 0; a draw made with the allowance at k > 0
\* succeeds and leaves it at k - 1, never below 0; the check
\* raise_unless_entropy_allowed raises exactly when the allowance is not
\* positive.
C2_GateLaw ==
    /\ (Draw /\ ~last.phase) =>
          IF last.before > 0
          THEN /\ last.raised = "none"
               /\ ALLOWED_ENTROPY_CALLS = last.before - 1
               /\ ALLOWED_ENTROPY_CALLS >= 0
          ELSE /\ last.raised = "OSError" /\ last.errno = EIO
               /\ ALLOWED_ENTROPY_CALLS = last.before
    /\ (last.op = "raise_unless_entropy_allowed" /\ ~last.phase) =>
          /\ (last.raised = "OSError") = (last.before <= 0)
          /\ ALLOWED_ENTROPY_CALLS = last.before

\* In a scope opened with n = 2 on an allowance of 0, two draws have succeeded
\* and the third has just been refused.
C2_Witness ==
    /\ Draw /\ ~last.phase /\ last.raised = "OSError"
    /\ Len(guards) = 1
    /\ guards[1].old = 0 /\ guards[1].n = 2 /\ drawn = 2
    /\ ALLOWED_ENTROPY_CALLS = 0

\* C3: in request context every call of os.urandom and of Random.seed succeeds,
\* whatever the allowance, also through a reference to the patched function.
C3_RequestContextAllows ==
    (last.op \in {"urandom", "seed"} /\ last.phase) => last.raised = "none"

\* patch_urandom, kept from top level, is called in request context with the
\* allowance at 0.
C3_Witness ==
    /\ last.op = "urandom" /\ last.fn = "patch_urandom"
    /\ last.phase /\ last.before = 0 /\ last.raised = "none"

Leftover == last.raised = "RuntimeError"

\* C4: a scope whose body made exactly n draws (and opened no scope of its
\* own) is released without the leftover RuntimeError, and one whose body made
\* fewer than n draws is released with it, however the body ended.
C4_LeftoverLaw ==
    (last.op = "allow_exit" /\ last.consumed >= 0) =>
        /\ last.consumed = last.n => ~Leftover
        /\ last.consumed < last.n => Leftover

\* C5: when a scope is released the allowance is back at the value it had
\* when the scope was entered, however the scope is left.
C5_RestoredOnRelease ==
    last.op = "allow_exit" => ALLOWED_ENTROPY_CALLS = last.old

\* C6: with scopes nested, releasing an inner scope puts the allowance back to
\* what the enclosing scope had when the inner one was entered, and releasing
\* the outermost scope after that puts it back to its value before any scope.
C6_NestedRestore ==
    (last.op = "allow_exit" /\ (last.depth > 1 \/ last.nested)) =>
        ALLOWED_ENTROPY_CALLS = last.old

RealAttr(rec) == mod_attrs[rec.mod][rec.key]

\* C7: outside request context, reading an allow-listed callable through a
\* proxy gives the module's callable itself, reading any other callable gives
\* a stand-in for it, and calling a stand-in raises RuntimeError('Cannot use
\* <module>.<attr>() outside of request context') without running the callable.
C7_BlockedOutsideRequest ==
    /\ (last.op = "getattr" /\ ~last.phase /\ callable(RealAttr(last))) =>
          IF last.key \in Allowlist(last.mod)
          THEN last.result = RealAttr(last)
          ELSE last.result = Wrapper(last.mod, last.key, RealAttr(last))
    /\ (last.op = "call" /\ ~last.phase /\ last.callee.kind = "wrapper") =>
          /\ last.raised = "RuntimeError"
          /\ last.msg = Message(last.callee.mod, last.callee.key)
          /\ last.ran = {}
    /\ (last.op = "call" /\ last.callee.kind = "fn") =>
          /\ last.raised = "none"
          /\ last.ret = <<last.callee.id, last.arg>>

\* random.random, read through the proxy at top level, has been called there.
C7_Witness ==
    /\ last.op = "call" /\ ~last.phase
    /\ last.callee = Wrapper("random", "random", Fn(<<"random", "random">>))
    /\ last.raised = "RuntimeError"

\* C8: in request context a read through a proxy gives the module's attribute
\* itself for every name, and calling what was read does not raise.
C8_TransparentInRequest ==
    /\ (last.op = "getattr" /\ last.phase) => last.result = RealAttr(last)
    /\ IPM_IN_REQUEST_CONTEXT =>
          \A proxy \in Proxies : \A key \in AttrNames(proxy._mod) :
              BlockedCallModule_getattribute(proxy, key) = mod_attrs[proxy._mod][key]
    /\ (last.op = "call" /\ last.phase) => last.raised = "none"

\* A callable that is not on the allow-list is read through the proxy in
\* request context.
C8_Witness ==
    /\ last.op = "getattr" /\ last.phase
    /\ last.key \notin Allowlist(last.mod)
    /\ last.result.kind = "fn"

\* C9: a stand-in raises when called outside request context and, called in
\* request context, returns what the callable it stands for returns for the
\* same argument.
C9_StandInDecidesAtCall ==
    (last.op = "call" /\ last.callee.kind = "wrapper") =>
        IF ~last.phase
        THEN last.raised = "RuntimeError" /\ last.ran = {}
        ELSE /\ last.raised = "none"
             /\ last.ret = <<last.callee.orig.id, last.arg>>
             /\ last.ran = {last.callee.orig.id}

\* A stand-in made at top level is called in request context.
C9_Witness ==
    /\ last.op = "call" /\ last.callee.kind = "wrapper" /\ last.phase
    /\ last.raised = "none"

\* C10: a write through a proxy lands on the module, the proxy object keeps
\* nothing of its own, and every non-callable attribute reads the same through
\* the proxy as on the module.
C10_WritesReachModule ==
    /\ last.op \in {"proxy_setattr", "module_setattr"} => RealAttr(last) = last.val
    /\ \A name \in BlockedNames : proxy_dict[name] = <<>>
    /\ \A proxy \in Proxies : \A key \in AttrNames(proxy._mod) :
          ~callable(mod_attrs[proxy._mod][key]) =>
              BlockedCallModule_getattribute(proxy, key) = mod_attrs[proxy._mod][key]

\* A non-callable value has been written through the proxy over a callable
\* that is not on the allow-list.
C10_Witness ==
    /\ last.op = "proxy_setattr"
    /\ last.val.kind = "const"
    /\ last.key \notin Allowlist(last.mod)
    /\ last.key # "TWOPI"

\* The meta path without the PatchFinder.
NoPatchFinder(path) == SelectSeq(path, LAMBDA f : f # "PatchFinder")

\* C11: for a module name without a registration PatchFinder.find_spec returns
\* None, and the import finds the same spec with the same loader and changes
\* the allowance, the handlers list, ORIG_MODULES and sys.modules in the same
\* way as over a meta path without the PatchFinder, from its first step to
\* its last.
C11_UnregisteredUntouched ==
    /\ \A name \in ModuleNames \ DOMAIN patches :
          /\ PatchFinder_find_spec(name) = NoneVal
          /\ import_begin(sys_meta_path, name) =
                import_begin(NoPatchFinder(sys_meta_path), name)
    /\ (loading # NoneVal /\ loading.name \notin DOMAIN patches) =>
          /\ loading.loader =
                meta_path_find_spec(NoPatchFinder(sys_meta_path), loading.name).loader
          /\ loading.step = "create" =>
                \A body \in {"returned", "raised"} :
                    LET r == import_created(body, "entered") IN
                    /\ r.budget = ALLOWED_ENTROPY_CALLS
                    /\ r.guards = guards
                    /\ r.handlers = before_first_request_handlers
                    /\ r.imported = IMPORTED_RUST_PACKAGE
                    /\ r.sys_modules =
                          IF body = "raised" THEN sys_modules
                          ELSE [sys_modules EXCEPT
                                   ![loading.name] = RealModule(loading.name)]
          /\ loading.step = "exec" =>
                \A body \in {"returned", "raised"} :
                    LET r == import_end(body) IN
                    /\ r.budget = ALLOWED_ENTROPY_CALLS
                    /\ r.guards = guards
                    /\ r.ORIG_MODULES = ORIG_MODULES
                    /\ r.sys_modules =
                          IF body = "returned" THEN sys_modules
                          ELSE [sys_modules EXCEPT ![loading.name] = NoneVal]

\* json, which has no registration, has been imported to the end with the
\* PatchFinder in the meta path.
C11_Witness ==
    /\ last.op = "import_end" /\ last.name = "json" /\ last.raised = "none"
    /\ PatchFinderInstalled
    /\ sys_modules["json"] = RealModule("json")

\* C12: for a registered name that no remaining finder has, the import fails
\* with ModuleNotFoundError as it does over a meta path without the
\* PatchFinder, no context manager of the registration is entered and the
\* handlers list stays as it is.
C12_RegisteredNotFound ==
    \A name \in DOMAIN patches :
        (sys_modules[name] = NoneVal
            /\ remaining_find_spec(sys_meta_path, name) = NoneVal) =>
        LET b == import_begin(sys_meta_path, name) IN
        /\ b.raised = "ModuleNotFoundError"
        /\ b = import_begin(NoPatchFinder(sys_meta_path), name)
        /\ b.entered = <<>>
        /\ b.handlers = before_first_request_handlers
        /\ b.loading = NoneVal

\* The import of a registered module that is not installed has failed with
\* the PatchFinder in the meta path.
C12_Witness ==
    /\ last.op = "import" /\ last.name = "langsmith._internal._constants"
    /\ last.installed
    /\ last.raised = "ModuleNotFoundError"
    /\ before_first_request_handlers = <<>>

\* The handlers that the executions in 'names' append.
RECURSIVE Pending(_)
Pending(names) ==
    IF names = <<>> THEN <<>>
    ELSE LET name == Head(names) IN
         (IF name \in DOMAIN patches /\ patches[name].before_first_request # "None"
          THEN <<partial(patches[name].before_first_request, RealModule(name))>>
          ELSE <<>>) \o Pending(Tail(names))

\* C13: outside request context the handlers list holds, in order, exactly
\* one entry for each execution of a module registered with a
\* before_first_request handler, bound to that module; a registered module
\* that was not executed has none.
C13_OneEntryPerExecution ==
    ~EP_IN_REQUEST_CONTEXT => before_first_request_handlers = Pending(executed)

\* multiprocessing.process (registered without a handler) and random have
\* been executed, numpy.random has not.
C13_Witness ==
    /\ ~EP_IN_REQUEST_CONTEXT
    /\ executed = <<"multiprocessing.process", "random">>
    /\ before_first_request_handlers =
          <<partial("random_before_first_request", RealModule("random"))>>
    /\ loading = NoneVal

\* The registered before_first_request handlers.
HandlerFns == {patches[name].before_first_request : name \in DOMAIN patches} \ {"None"}

\* The calls of registered handlers among the calls of before_first_request.
HandlerCalls(called) == SelectSeq(called, LAMBDA c : c.fn \in HandlerFns)

\* The calls that running the entries of 'pending' in order makes.
Bound(pending) ==
    [i \in 1..Len(pending) |-> Called(pending[i].fn, <<pending[i].module>>)]

Count(seq, x) == Cardinality({i \in DOMAIN seq : seq[i] = x})

\* C14: before_first_request calls the entries of before_first_request_handlers
\* in the order they were appended, each once with the module it is bound
\* to, and leaves the list empty.
C14_DrainedInOrder ==
    last.op = "before_first_request" =>
        /\ HandlerCalls(last.called) = Bound(last.pending)
        /\ before_first_request_handlers = <<>>

\* C15: a second call of before_first_request calls no handler and leaves the
\* request-context flags, the meta path, sys.modules, ORIG_MODULES and the
\* entropy primitives as the first call left them.
C15_SecondCallNoOp ==
    [][(firstRequestCalls >= 1 /\ firstRequestCalls' = firstRequestCalls + 1) =>
          /\ UNCHANGED <<EP_IN_REQUEST_CONTEXT, IPM_IN_REQUEST_CONTEXT,
                         sys_meta_path, sys_modules, ORIG_MODULES, os_urandom,
                         Random_seed, before_first_request_handlers>>
          /\ HandlerCalls(last'.called) = <<>>]_vars

\* C16: of two calls of before_first_request only one does the teardown: the
\* other makes none of its calls and changes nothing, and the handlers have
\* been run once and are gone.
C16_OneTeardown ==
    (last.op = "before_first_request" /\ firstRequestCalls >= 2) =>
        /\ last.called = <<>>
        /\ sys_meta_path = last.chain
        /\ before_first_request_handlers = <<>>

\* C17: whatever the handlers do, before_first_request ends in request
\* context with every pending entry called as often as it is pending, and
\* it raises only after its last call.
C17_FailureIsolated ==
    last.op = "before_first_request" =>
        /\ EP_IN_REQUEST_CONTEXT
        /\ \A i \in 1..Len(last.pending) :
              Count(HandlerCalls(last.called), Bound(last.pending)[i]) =
                Count(Bound(last.pending), Bound(last.pending)[i])
        /\ last.raised # "none" => last.called = Statements

\* C18: after before_first_request sys.modules holds the recorded module for
\* every name that was in ORIG_MODULES, and ORIG_MODULES is empty.
C18_FacadesRestored ==
    last.op = "before_first_request" =>
        /\ \A name \in DOMAIN last.blocked : sys_modules[name] = last.blocked[name]
        /\ ORIG_MODULES = <<>>

C20_EndToEnd ==
    /\ (/\ last.op = "import_end" /\ last.name = "random"
        /\ last.loader.kind = "PatchLoader" /\ last.body = "returned"
        /\ last.consumed <= 10) => last.raised = "none"
    /\ (/\ last.op = "before_first_request" /\ firstRequestCalls = 1
        /\ Count(last.pending,
                 partial("random_before_first_request", RealModule("random"))) = 1) =>
          /\ EP_IN_REQUEST_CONTEXT
          /\ Count(last.called, Called("random_before_first_request",
                                       <<RealModule("random")>>)) = 1

\* What a caller sees of a raised exception.
Error(r) == [raised |-> r.raised, errno |-> r.errno]

Entry(d, name) == IF name \in DOMAIN d THEN d[name] ELSE PatchInfo

\* C22: a registration sets its own field of the entry of its name and leaves
\* the other two fields of that entry, and every other entry, as they were; a
\* field that was never registered has its default (nullcontext, None).
C22_RegistrationMerges ==
    last.op = "register" =>
        /\ DOMAIN patches = DOMAIN last.before \cup {last.name}
        /\ patches[last.name] =
              [Entry(last.before, last.name) EXCEPT ![last.field] = last.val]
        /\ \A name \in DOMAIN last.before \ {last.name} :
              patches[name] = last.before[name]

\* tempfile has been registered with a handler, an exec and a create context
\* manager, the create one last.
C22_Witness ==
    /\ last.op = "register" /\ last.field = "create" /\ last.name = "tempfile"
    /\ patches["tempfile"] =
          [create |-> "rust_package_context", exec |-> "tempfile_context",
           before_first_request |-> "tempfile_restore_random_name_sequence"]
    /\ patches["random"] = entropy_import_context["random"]

\* The events of a trace other than the appending of a handler.
Steps(t) == SelectSeq(t, LAMBDA ev : ev[1] # "append")

\* The whole load through a PatchLoader, as the registration prescribes it:
\* the create context manager around the real create_module, then the exec
\* context manager around the real exec_module. b1 and b2 tell how the two
\* real steps ended.
Prescribed(patch_info, b1, b2) ==
    <<Ev("enter", patch_info.create), Ev("call", "create_module"),
      Ev(b1, "create_module"), Ev("exit", patch_info.create),
      Ev("enter", patch_info.exec), Ev("call", "exec_module"),
      Ev(b2, "exec_module"), Ev("exit", patch_info.exec)>>

\* The trace of the load in progress or of the one that has just ended.
LoadTrace ==
    IF loading # NoneVal THEN [loader |-> loading.loader, trace |-> loading.trace]
    ELSE IF last.op \in {"import_created", "import_end"}
    THEN [loader |-> last.loader, trace |-> last.trace]
    ELSE NoneVal

\* C23: in the load of a registered module that was found, the create context
\* manager is entered before and left after the real create_module, the exec
\* context manager is entered before and left after the real exec_module,
\* neither is open during the other's step, and each is entered once: the
\* events are an initial part of enter create, create_module, exit create,
\* enter exec, exec_module, exit exec, whole when the load has ended. The
\* context manager that is open during a step is the one of that step.
C23_PolicyAroundEachStep ==
    (LoadTrace # NoneVal /\ LoadTrace.loader.kind = "PatchLoader") =>
        LET t == Steps(LoadTrace.trace)
            info == LoadTrace.loader.patch_info
        IN  /\ \E b1, b2 \in {"return", "raise"} :
                  /\ Len(t) <= 8
                  /\ t = SubSeq(Prescribed(info, b1, b2), 1, Len(t))
            /\ loading # NoneVal => Len(t) = IF loading.step = "create" THEN 2 ELSE 6
            /\ (loading = NoneVal /\ last.op = "import_created") =>
                  Len(t) = 4
            /\ (loading = NoneVal /\ last.op = "import_end") => Len(t) = 8
            /\ loading # NoneVal =>
                  LET cm == IF loading.step = "create" THEN info.create ELSE info.exec IN
                  /\ cm # "rust_package_context" =>
                        /\ loading.cm.allow = ContextManager(cm).allow
                        /\ loading.cm.block = ContextManager(cm).block
                  /\ cm = "rust_package_context" => loading.cm.allow \in {-1, 1}
                  /\ loading.cm.allow >= 0 =>
                        /\ guards # <<>>
                        /\ Top.n = loading.cm.allow

\* tiktoken._tiktoken, registered with a create context manager, and random,
\* registered with an exec one, have been loaded to the end.
C23_Witness ==
    /\ last.op = "import_end"
    /\ last.raised = "none"
    /\ last.loader.kind = "PatchLoader"
    /\ last.name = "random"
    /\ Len(Steps(last.trace)) = 8
    /\ sys_modules["tiktoken._tiktoken"] = RealModule("tiktoken._tiktoken")
    /\ IMPORTED_RUST_PACKAGE

\* The number of PatchFinders in a meta path.
PatchFinders(path) == Cardinality({i \in DOMAIN path : path[i] = "PatchFinder"})

\* C24: over a meta path with one or more PatchFinders, the lookup of a
\* registered module ends, PatchFinder.find_spec calls the find_spec of no
\* PatchFinder and of every other finder at most once, and a spec that is
\* found has the loader of a finder of the interpreter wrapped in one
\* PatchLoader, so that the load enters one create context manager.
C24_NoSelfCallOneWrap ==
    PatchFinders(sys_meta_path) >= 1 =>
        \A name \in DOMAIN patches :
            LET w == remaining_walk(sys_meta_path, name)
                spec == meta_path_find_spec(sys_meta_path, name)
            IN  /\ w.raised = "none"
                /\ \A i \in DOMAIN w.consulted : w.consulted[i] # "PatchFinder"
                /\ Len(w.consulted) <= Len(sys_meta_path) - PatchFinders(sys_meta_path)
                /\ (w.spec = NoneVal) = (spec = NoneVal)
                /\ spec # NoneVal =>
                      /\ spec.loader.kind = "PatchLoader"
                      /\ spec.loader.orig_loader = w.spec.loader
                      /\ spec.loader.orig_loader.kind = "loader"
                      /\ spec.loader.patch_info = patches[name]
                /\ (spec # NoneVal /\ name \in ModuleNames /\ sys_modules[name] = NoneVal) =>
                      import_begin(sys_meta_path, name).entered = <<patches[name].create>>

\* random has been looked up over a meta path with two PatchFinders and was
\* found.
C24_Witness ==
    /\ last.op = "find_spec"
    /\ last.name = "random"
    /\ PatchFinders(last.chain) = 2
    /\ last.chain = sys_meta_path
    /\ last.spec # NoneVal
    /\ last.spec.loader.kind = "PatchLoader"
    /\ last.walk.consulted = <<"BuiltinImporter", "FrozenImporter", "PathFinder">>

\* C25: over a meta path with a PatchFinder, the loader that is wrapped for a
\* registered module is the one of the first other finder, in the order of the
\* meta path, that has the module, which is the loader that the import finds
\* over the meta path without PatchFinders; PatchFinder.find_spec calls the
\* finders up to that one and none after it.
C25_FirstFinderWins ==
    PatchFinders(sys_meta_path) >= 1 =>
        \A name \in DOMAIN patches :
            LET rest == NoPatchFinder(sys_meta_path)
                has == {i \in DOMAIN rest : finder_find_spec(rest[i], name) # NoneVal}
                w == remaining_walk(sys_meta_path, name)
                spec == meta_path_find_spec(sys_meta_path, name)
            IN  /\ has = {} => spec = NoneVal /\ w.consulted = rest
                /\ has # {} =>
                      LET first == CHOOSE i \in has : \A j \in has : i <= j IN
                      /\ spec # NoneVal
                      /\ spec.loader.orig_loader = Loader(rest[first])
                      /\ spec.loader.orig_loader = meta_path_find_spec(rest, name).loader
                      /\ w.consulted = SubSeq(rest, 1, first)

\* os, which FrozenImporter and PathFinder both have, is registered and has
\* been looked up over a meta path with a PatchFinder and both finders.
C25_Witness ==
    /\ last.op = "find_spec"
    /\ last.name = "os"
    /\ "os" \in DOMAIN patches
    /\ last.chain = <<"PatchFinder", "BuiltinImporter", "FrozenImporter", "PathFinder">>
    /\ last.spec.loader.kind = "PatchLoader"
    /\ last.spec.loader.orig_loader = Loader("FrozenImporter")
    /\ last.walk.consulted = <<"BuiltinImporter", "FrozenImporter">>

\* The statements of before_first_request that undo the top-level patches.
Teardown == {"restore_urandom", "restore_random_seed", "remove_import_patch_manager"}

\* C26: before_first_request calls every pending entry, and each such call
\* comes after the flag is set and after restore_urandom, restore_random_seed
\* and remove_import_patch_manager have been called, so that the entry runs in
\* request context with the entropy primitives and the modules put back.
C26_TeardownBeforeHandlers ==
    last.op = "before_first_request" =>
        \A i \in 1..Len(last.pending) :
            \E k \in DOMAIN last.called :
                /\ last.called[k] = Bound(last.pending)[i]
                /\ \A fn \in Teardown : \E j \in 1..(k - 1) : last.called[j].fn = fn
                /\ EP_IN_REQUEST_CONTEXT
                /\ os_urandom = "orig_urandom"
                /\ Random_seed = "orig_Random_seed"
                /\ \A name \in DOMAIN last.blocked : sys_modules[name] = last.blocked[name]

\* C27: as long as before_first_request has not set IN_REQUEST_CONTEXT, every
\* name in ORIG_MODULES is recorded with its real module and has in
\* sys.modules a BlockedCallModule around that module, and every
\* BlockedCallModule in sys.modules is under a name in ORIG_MODULES.
C27_FacadesMatchRecords ==
    ~EP_IN_REQUEST_CONTEXT =>
        /\ \A name \in DOMAIN ORIG_MODULES :
              /\ ORIG_MODULES[name] = RealModule(name)
              /\ sys_modules[name].kind = "BlockedCallModule"
              /\ sys_modules[name]._mod = ORIG_MODULES[name].name
        /\ \A name \in DOMAIN sys_modules :
              sys_modules[name].kind = "BlockedCallModule" =>
                 name \in DOMAIN ORIG_MODULES

\* random and numpy.random have both been imported at top level and json has
\* not been wrapped.
C27_Witness ==
    /\ ~EP_IN_REQUEST_CONTEXT
    /\ DOMAIN ORIG_MODULES = {"random", "numpy.random"}
    /\ sys_modules["random"] = BlockedCallModule("random", Allowlist("random"))
    /\ sys_modules["numpy.random"] =
          BlockedCallModule("numpy.random", Allowlist("numpy.random"))
    /\ last.op = "import_end"

\* C28: once before_first_request has been called, no step puts a
\* BlockedCallModule into sys.modules or changes ORIG_MODULES or
\* before_first_request_handlers, and the steps of an import go through the
\* loader of a finder of the interpreter and leave the allowance and the open
\* allow_bad_entropy_calls scopes as they are.
C28_NoPolicyAfterFirstRequest ==
    [][firstRequestCalls >= 1 =>
          /\ ORIG_MODULES' = ORIG_MODULES
          /\ before_first_request_handlers' = before_first_request_handlers
          /\ \A name \in DOMAIN sys_modules :
                sys_modules'[name].kind = "BlockedCallModule" =>
                   sys_modules'[name] = sys_modules[name]
          /\ last'.op \in {"import", "import_created", "import_end"} =>
                /\ ALLOWED_ENTROPY_CALLS' = ALLOWED_ENTROPY_CALLS
                /\ guards' = guards
                /\ IMPORTED_RUST_PACKAGE' = IMPORTED_RUST_PACKAGE
                /\ loading' # NoneVal => loading'.loader.kind = "loader"]_vars

\* numpy.random, which is registered with a context manager that ends in
\* block_calls and with a handler, has been imported to the end after
\* before_first_request.
C28_Witness ==
    /\ firstRequestCalls >= 1
    /\ last.op = "import_end"
    /\ last.name = "numpy.random"
    /\ last.raised = "none"
    /\ last.loader = Loader("PathFinder")
    /\ sys_modules["numpy.random"] = RealModule("numpy.random")
    /\ "numpy.random" \notin DOMAIN ORIG_MODULES

\* s is an initial part of t.
IsPrefix(s, t) == Len(s) <= Len(t) /\ s = SubSeq(t, 1, Len(s))

\* C29: before IN_REQUEST_CONTEXT is set, every step leaves
\* before_first_request_handlers as an initial part of what it becomes, and a
\* step after which an entry is gone is a call of before_first_request.
C29_HandlersAppendOnly ==
    [][/\ ~EP_IN_REQUEST_CONTEXT =>
             IsPrefix(before_first_request_handlers, before_first_request_handlers')
       /\ ~IsPrefix(before_first_request_handlers, before_first_request_handlers') =>
             last'.op = "before_first_request"]_vars

\* A second handler has been appended at top level behind the first.
C29_Witness ==
    /\ ~EP_IN_REQUEST_CONTEXT
    /\ last.op = "import_created"
    /\ Len(before_first_request_handlers) = 2
    /\ before_first_request_handlers[1].fn # before_first_request_handlers[2].fn

\* The step is a call of one of the gated entry points.
GateCheck ==
    \/ last'.op = "raise_unless_entropy_allowed"
    \/ last'.op = "urandom" /\ last'.fn = "patch_urandom"
    \/ last'.op = "seed" /\ last'.fn = "patched_seed"

\* C30: a call of raise_unless_entropy_allowed, patch_urandom or patched_seed
\* leaves the request-context flags, the registry, the handlers list,
\* ORIG_MODULES, sys.modules, sys.meta_path and the installed primitives as
\* they are and takes at most one from the allowance; a call that is refused
\* leaves the allowance at 0 and does not reach the entropy source.
C30_GateFrame ==
    [][GateCheck =>
          /\ UNCHANGED <<flagVars, patches, before_first_request_handlers,
                         ORIG_MODULES, sys_modules, sys_meta_path, primVars, guards>>
          /\ ALLOWED_ENTROPY_CALLS' \in
                {ALLOWED_ENTROPY_CALLS, ALLOWED_ENTROPY_CALLS - 1}
          /\ last'.raised # "none" =>
                /\ ALLOWED_ENTROPY_CALLS' = ALLOWED_ENTROPY_CALLS
                /\ ALLOWED_ENTROPY_CALLS' = 0
                /\ ~last'.source]_vars

\* patch_urandom has refused a call at top level.
C30_Witness ==
    /\ last.op = "urandom"
    /\ last.fn = "patch_urandom"
    /\ last.raised = "OSError"
    /\ ~last.source
    /\ ~last.phase
    /\ last.before = 0
    /\ ALLOWED_ENTROPY_CALLS = 0

\* C31: from before_top_level to before_first_request os.urandom is
\* patch_urandom and Random.seed is patched_seed, and with the allowance at 0
\* os.urandom() and Random.seed() raise OSError(EIO) without calling
\* orig_urandom or orig_Random_seed; after before_first_request the two names
\* hold orig_urandom and orig_Random_seed again, as before before_top_level.
C31_DisableRestoreRoundTrip ==
    /\ ~topLevelDone => os_urandom = "orig_urandom" /\ Random_seed = "orig_Random_seed"
    /\ (topLevelDone /\ firstRequestCalls = 0) =>
          /\ os_urandom = "patch_urandom"
          /\ Random_seed = "patched_seed"
          /\ ~EP_IN_REQUEST_CONTEXT
          /\ ALLOWED_ENTROPY_CALLS = 0 =>
                /\ patch_urandom = OSError(EIO, 0)
                /\ patched_seed("None") = OSError(EIO, 0)
          /\ (Draw /\ last.before = 0) =>
                /\ last.raised = "OSError"
                /\ last.errno = EIO
                /\ ~last.source
                /\ ALLOWED_ENTROPY_CALLS = 0
    /\ firstRequestCalls >= 1 =>
          os_urandom = "orig_urandom" /\ Random_seed = "orig_Random_seed"

\* Random.seed() has been called through the name Random.seed between
\* before_top_level and before_first_request with the allowance at 0.
C31_Witness ==
    /\ topLevelDone /\ firstRequestCalls = 0
    /\ last.op = "seed" /\ last.val = "None" /\ last.fn = Random_seed
    /\ os_urandom = "patch_urandom"
    /\ last.before = 0
    /\ last.raised = "OSError" /\ ~last.source

\* The values that a register function of the field is called with.
RegValues(field) ==
    IF field = "before_first_request" THEN RegHandlers ELSE RegContextManagers

\* C32: register_X(name) returns a partial and leaves the registry alone, and
\* calling it with f leaves the registry as register_X(name, f) does and
\* returns f, for the three register functions; so the three decorators on
\* rust_package_context return it and make it the exec context manager of
\* jiter and cryptography.exceptions and the create context manager of
\* tiktoken._tiktoken.
C32_DecoratorIsDirectCall ==
    /\ \A field \in {"create", "exec", "before_first_request"} :
       \A name \in RegNames \cup RustNames : \A f \in RegValues(field) :
          LET direct == register_call(field, patches, name, f)
              p == register_call(field, patches, name, "None")
              dec == partial_call(p.ret, p.patches, f)
          IN  /\ p.patches = patches
              /\ p.ret = register_partial(field, name)
              /\ dec.patches = direct.patches
              /\ dec.ret = f /\ direct.ret = f
              /\ decorator(field, patches, name, f) = dec
              /\ Entry(dec.patches, name)[field] = f
    /\ last.op = "decorate" =>
          /\ patches = register_call(last.field, last.before, last.name, last.val).patches
          /\ last.ret = last.val
    /\ rust_package_registrations.ret = "rust_package_context"
    /\ DOMAIN rust_package_registrations.patches = RustNames
    /\ Entry(entropy_import_context, "jiter") =
          [PatchInfo EXCEPT !.exec = "rust_package_context"]
    /\ Entry(entropy_import_context, "cryptography.exceptions") =
          [PatchInfo EXCEPT !.exec = "rust_package_context"]
    /\ Entry(entropy_import_context, "tiktoken._tiktoken") =
          [PatchInfo EXCEPT !.create = "rust_package_context"]

\* tempfile_context has been registered for tempfile with the decorator form
\* behind another registration of that name.
C32_Witness ==
    /\ last.op = "decorate"
    /\ last.field = "exec" /\ last.name = "tempfile" /\ last.val = "tempfile_context"
    /\ "tempfile" \in DOMAIN last.before
    /\ patches["tempfile"].exec = "tempfile_context"
    /\ patches["tempfile"].before_first_request = "tempfile_restore_random_name_sequence"

\* The positions of the appending of a handler in a trace.
Appends(t) == {i \in DOMAIN t : t[i][1] = "append"}

\* C33: when exec_module of a PatchLoader with a registered handler is called,
\* the handler is appended once, bound to the module, after create_module is
\* done and before the exec context manager is entered; the entry is there
\* when entering the context manager or the module body has raised, and a
\* module whose exec_module was called k times through the PatchLoader has k
\* entries.
C33_AppendedBeforeExec ==
    /\ (LoadTrace # NoneVal /\ LoadTrace.loader.kind = "PatchLoader"
          /\ LoadTrace.loader.patch_info.before_first_request # "None") =>
          LET t == LoadTrace.trace
              info == LoadTrace.loader.patch_info
          IN  /\ Cardinality(Appends(t)) <= 1
              /\ (\E q \in DOMAIN t : t[q] = Ev("call", "exec_module")) =>
                    Appends(t) # {}
              /\ \A p \in Appends(t) :
                    /\ t[p] = Ev("append", info.before_first_request)
                    /\ t[p - 1] = Ev("exit", info.create)
                    /\ p < Len(t) => t[p + 1] = Ev("enter", info.exec)
                    /\ \A q \in DOMAIN t :
                          t[q] = Ev("call", "exec_module") => p < q
    /\ (last.op \in {"import_created", "import_end"}
          /\ last.loader.kind = "PatchLoader"
          /\ last.loader.patch_info.before_first_request # "None"
          /\ Appends(last.trace) # {}) =>
          /\ before_first_request_handlers # <<>>
          /\ before_first_request_handlers[Len(before_first_request_handlers)] =
                partial(last.loader.patch_info.before_first_request,
                        RealModule(last.name))
    /\ (last.op = "import_created" /\ last.raised = "enter"
          /\ last.loader.patch_info.before_first_request # "None") =>
          Appends(last.trace) # {}
    /\ \A name \in DOMAIN patches :
          (~EP_IN_REQUEST_CONTEXT /\ patches[name].before_first_request # "None") =>
             Count(before_first_request_handlers,
                   partial(patches[name].before_first_request, RealModule(name)))
               = Count(executed, name)

\* Entering the exec context manager of numpy.random has raised in the second
\* import of the module, after the body raised in the first.
C33_Witness ==
    /\ last.op = "import_created"
    /\ last.name = "numpy.random"
    /\ last.raised = "enter"
    /\ Count(executed, "numpy.random") = 2
    /\ Len(before_first_request_handlers) = 2
    /\ sys_modules["numpy.random"] = NoneVal

\* C34: between the calls of before_first_request the three IN_REQUEST_CONTEXT
\* flags are equal, all False before the first call and all True after it, so
\* that with the flag of the BlockedCallModules set neither
\* raise_unless_entropy_allowed nor the patched primitives refuse a call.
C34_FlagsAgree ==
    /\ AE_IN_REQUEST_CONTEXT = EP_IN_REQUEST_CONTEXT
    /\ EP_IN_REQUEST_CONTEXT = IPM_IN_REQUEST_CONTEXT
    /\ EP_IN_REQUEST_CONTEXT = (firstRequestCalls >= 1)
    /\ IPM_IN_REQUEST_CONTEXT =>
          /\ raise_unless_entropy_allowed.raised = "none"
          /\ patch_urandom.raised = "none"
          /\ patched_seed("None").raised = "none"

\* C35: Random.seed(val) with a value other than None is never refused and does
\* not look at the request-context flag or the allowance: both patched_seed
\* functions return what orig_Random_seed(val) returns, without an error and with
\* the allowance unchanged; a patched_seed itself refuses (an error that does not
\* come out of the entropy source) only seed(None) with its gate closed.
C35_ExplicitSeedNeverDenied ==
    /\ patched_seed("value") = orig_Random_seed("value")
    /\ EIC_patched_seed("value") = orig_Random_seed("value")
    /\ patched_seed("value") = OK(ALLOWED_ENTROPY_CALLS)
    /\ \A val \in SeedValues :
          /\ patched_seed(val).raised # "none" /\ ~patched_seed(val).source =>
                val = "None" /\ ~EP_should_allow_entropy_call
          /\ EIC_patched_seed(val).raised # "none" /\ ~EIC_patched_seed(val).source =>
                val = "None" /\ ~AE_should_allow_entropy_call
    /\ last.op = "seed" /\ last.val = "value" =>
          last.raised = "none" /\ ALLOWED_ENTROPY_CALLS = last.before

C35_Witness ==
    /\ last.op = "seed" /\ last.val = "value" /\ last.fn = "patched_seed"
    /\ Random_seed = "patched_seed"
    /\ ~last.phase /\ last.before = 0 /\ last.raised = "none"
    /\ patched_seed("None").raised = "OSError"

\* The step enters rust_package_context, as the create context manager of a
\* PatchLoader or as its exec context manager.
RustEntered ==
    \/ /\ last'.op = "import" /\ last'.outcome = "creating"
       /\ last'.entered = <<"rust_package_context">>
    \/ /\ last'.op = "import_created" /\ last'.raised = "none"
       /\ PatchLoader_exec_context(last'.loader) = "rust_package_context"

EarlierVersions == {<<3, 11>>, <<3, 12>>}

\* C36: on Python 3.13 and later, whatever the order of the loads, the first
\* load that enters rust_package_context runs with the allowance set to 1 and
\* sets IMPORTED_RUST_PACKAGE, which is never cleared, and every later one
\* leaves the allowance and the open scopes as they are; the flag changes in
\* no other step. On an earlier version rust_package_context opens an allowance
\* of 1 whatever the flag.
C36_FirstRustLoadOnly ==
    /\ ~IMPORTED_RUST_PACKAGE
    /\ AtLeast(sys_version_info, <<3, 13>>)
    /\ \A v \in EarlierVersions : \A imported \in BOOLEAN :
          rust_package_context(v, imported).allow = 1
    /\ [][/\ IMPORTED_RUST_PACKAGE => IMPORTED_RUST_PACKAGE'
          /\ IMPORTED_RUST_PACKAGE' # IMPORTED_RUST_PACKAGE => RustEntered
          /\ RustEntered =>
                /\ IMPORTED_RUST_PACKAGE'
                /\ IF IMPORTED_RUST_PACKAGE
                   THEN /\ ALLOWED_ENTROPY_CALLS' = ALLOWED_ENTROPY_CALLS
                        /\ guards' = guards
                   ELSE /\ ALLOWED_ENTROPY_CALLS' = 1
                        /\ guards' = Append(guards, [old |-> ALLOWED_ENTROPY_CALLS,
                                                     n |-> 1])]_vars

\* jiter has been loaded with no allowance after tiktoken._tiktoken was loaded
\* with its one draw.
C36_Witness ==
    /\ last.op = "import_end" /\ last.name = "jiter" /\ last.raised = "none"
    /\ last.loader.kind = "PatchLoader" /\ last.consumed = 0
    /\ sys_modules["tiktoken._tiktoken"] # NoneVal
    /\ sys_modules["jiter"] # NoneVal
    /\ IMPORTED_RUST_PACKAGE /\ ALLOWED_ENTROPY_CALLS = 0

\* C37: when the exec context manager of pydantic_core has exited, the
\* allowance is what it was when the context manager was entered, whatever
\* that was, whether the probe validate_core_schema(None) made its draw or
\* not, and the SchemaError of the probe does not fail an import whose module
\* body returned after its one draw.
C37_PydanticRestores ==
    [][/\ last'.op = "import_end" /\ last'.name \in PydanticNames
       /\ last'.loader.kind = "PatchLoader"
       => /\ ALLOWED_ENTROPY_CALLS' = Top.old
          /\ last'.body = "returned" /\ last'.consumed = 1 => last'.raised = "none"]_vars

\* C38: the allowance is held in one signed 8-bit cell: it is always within
\* -128..127; allow_bad_entropy_calls(n) stores n exactly when n is within
\* -128..127 and otherwise raises OverflowError on the assignment in front of
\* its yield, with the allowance and the open scopes left as they were, so a
\* value is never stored modulo 2^8.
C38_SignedCell ==
    /\ [](ALLOWED_ENTROPY_CALLS \in SCHAR_MIN..SCHAR_MAX)
    /\ [][last'.op = "allow_enter" =>
             /\ (last'.raised = "none") <=> (last'.n \in SCHAR_MIN..SCHAR_MAX)
             /\ last'.raised = "none" =>
                   /\ ALLOWED_ENTROPY_CALLS' = last'.n
                   /\ guards' = Append(guards, [old |-> ALLOWED_ENTROPY_CALLS,
                                                n |-> last'.n])
             /\ last'.raised # "none" =>
                   /\ last'.raised = "OverflowError"
                   /\ guards' = guards
                   /\ ALLOWED_ENTROPY_CALLS' = ALLOWED_ENTROPY_CALLS]_vars

\* allow_bad_entropy_calls(128) was refused with a leftover allowance of 127 in
\* the cell.
C38_Witness ==
    /\ last.op = "allow_enter" /\ last.n = SCHAR_MAX + 1
    /\ last.raised = "OverflowError"
    /\ last.before = SCHAR_MAX /\ ALLOWED_ENTROPY_CALLS = SCHAR_MAX

\* C39: while a no_ssl scope is open, ssl is not in sys.modules and looking it
\* up or importing it fails with ModuleNotFoundError, while a module that the
\* scope does not hide is found as without the scope; when a scope is left, by
\* return or by an exception of its body, nested or not, sys.meta_path is what
\* it was when the scope was entered, with the PatchFinder and the finders of
\* the interpreter in their order, and sys.modules holds for ssl what it held
\* then, the same module or nothing, and is otherwise as the body left it.
C39_NoSslRoundTrip ==
    /\ [](no_ssl_frames # <<>> =>
            /\ sys_modules["ssl"] = NoneVal
            /\ meta_path_find_spec(sys_meta_path, "ssl") = ModuleNotFoundError("ssl")
            /\ import_begin(sys_meta_path, "ssl").outcome = "failed"
            /\ import_begin(sys_meta_path, "ssl").raised = "ModuleNotFoundError"
            /\ meta_path_find_spec(sys_meta_path, "json") =
                  meta_path_find_spec(no_ssl_frames[1].path, "json"))
    /\ [][/\ last'.op = "no_ssl_enter" =>
                /\ sys_meta_path' = <<last'.f>> \o sys_meta_path
                /\ \A i \in DOMAIN sys_meta_path : sys_meta_path[i] # last'.f
          /\ last'.op = "no_ssl_exit" =>
                LET frame == no_ssl_frames[Len(no_ssl_frames)] IN
                /\ last'.raised \in {"none", "body"}
                /\ sys_meta_path' = frame.path
                /\ sys_modules' = [sys_modules EXCEPT !["ssl"] = frame.ssl]
                /\ Len(no_ssl_frames) = 1 =>
                      \A i \in DOMAIN sys_meta_path' :
                         ~isinstance_NoSslFinder(sys_meta_path'[i])]_vars

\* The inner of two scopes has been left by an exception while the outer one
\* holds the ssl module that was loaded before it.
C39_Witness ==
    /\ last.op = "no_ssl_exit" /\ last.body = "raised" /\ last.depth = 2
    /\ Len(no_ssl_frames) = 1
    /\ no_ssl_frames[1].ssl = RealModule("ssl")
    /\ sys_meta_path = <<NoSslFinder(1), "PatchFinder">> \o meta_path

\* The position of the character c in the alphabet chars, from 0.
Position(chars, c) == (CHOOSE i \in DOMAIN chars : chars[i] = c) - 1

\* The number that the list s of characters stands for, lowest digit first.
RECURSIVE FromDigits(_, _)
FromDigits(chars, s) ==
    IF s = <<>> THEN 0
    ELSE Position(chars, Head(s)) + Len(chars) * FromDigits(chars, Tail(s))

\* base to the power n.
RECURSIVE Power(_, _)
Power(base, n) == IF n = 0 THEN 1 ELSE base * Power(base, n - 1)

\* C40: the k-th name that a DeterministicRandomNameSequence returns is
\* index_to_chars of k and nothing else: it has 8 characters, each from the 37
\* of the alphabet, its characters are the digits of k in base 37 with the
\* lowest digit first, and it differs from every name returned before it. A
\* sequence over MaxSmallBase characters with names of MaxSmallLength
\* characters, drawn to its end, returns different names for all the indices
\* from 1 to MaxSmallBase^MaxSmallLength - 1.
C40_NamesDeterministicDistinct ==
    /\ Len(characters) = 37
    /\ \A i, j \in DOMAIN characters : i # j => characters[i] # characters[j]
    /\ LET chars == SubSeq(characters, 1, MaxSmallBase)
           n == Power(MaxSmallBase, MaxSmallLength) - 1 IN
       \A i, j \in 1..n :
          i # j => join(index_to_chars_loop(chars, MaxSmallLength, i))
                     # join(index_to_chars_loop(chars, MaxSmallLength, j))
    /\ [](last.op = "next" =>
            LET s == index_to_chars_loop(characters, NameLength, index) IN
            /\ last.index = index
            /\ last.name = index_to_chars(index)
            /\ last.name = join(s)
            /\ Len(last.name) = 8
            /\ Len(s) = 8
            /\ \A i \in DOMAIN s : \E c \in DOMAIN characters : s[i] = characters[c]
            /\ FromDigits(characters, s) = index
            /\ \A k \in 1..(index - 1) : index_to_chars(k) # last.name)

\* The 1370th name, the first with a third character other than "a".
C40_Witness ==
    /\ last.op = "next" /\ index = 1370
    /\ last.name = "babaaaaa"

====
